---- MODULE Spec2Model ----
(***************************************************************************)
(* A model of google/pasta: the token stream, the annotator, the code      *)
(* generator and the tree-editing utilities.                               *)
(*                                                                         *)
(* Text is a sequence of one-character strings.  A location is a pair      *)
(* <<row, col>> with rows counted from 1 and columns from 0, as the        *)
(* tokenize module reports them.  Token indexes are the Python indexes     *)
(* (the first token has index 0, the cursor starts at -1); the token with  *)
(* Python index k is tokens[k + 1].                                        *)
(***************************************************************************)
EXTENDS Integers, Sequences, FiniteSets, TLC

\* ------------------------------------------------------------------ bounds

\* Most tokens (NEWLINE tokens included, ENDMARKER not) of a generated source.
MaxLen == 8
\* Most statements of a generated source.
MaxStmts == 3
\* Most nodes in one list field of a parent handed to the tree edits.
MaxKids == 2
\* Most tokens (ENDMARKER included) of a stream the cursor operations run on.
MaxStream == 5
\* Most tokens one rewind moves the cursor back.
MaxRewind == 2
\* Most if statements nested in the orelse of an if statement.
MaxElif == 2
\* Most elements of a list display.
MaxElts == 2

\* -------------------------------------------------------------------- text

Min2(a, b) == IF a < b THEN a ELSE b
Max2(a, b) == IF a > b THEN a ELSE b

\* Python's s[a:b] on a sequence (0-based, end exclusive, clamped).
Slice(s, a, b) == SubSeq(s, Max2(a, 0) + 1, Min2(b, Len(s)))
\* Python's s[a:]
SliceFrom(s, a) == Slice(s, a, Len(s))

RECURSIVE Concat(_)
\* ''.join(parts)
Concat(parts) == IF parts = <<>> THEN <<>> ELSE Head(parts) \o Concat(Tail(parts))

\* Lexicographic order of locations (Python's tuple comparison).
LocGT(p, q) == p[1] > q[1] \/ (p[1] = q[1] /\ p[2] > q[2])

NL == "\n"

\* ----------------------------------------------------------------- sources
\* The sources the model parses: every module of at most MaxStmts statements
\* and MaxLen tokens of the grammar
\*     stmt ::= expr NEWLINE | 'from' ['.'] 'a' 'import' 'b' NEWLINE
\*     expr ::= NAME | NUMBER | '(' expr ')' | expr '+' expr
\* laid out in each of the Styles below.

RECURSIVE ExprCST(_)
\* The concrete syntax trees of the expressions with exactly n tokens.  The
\* right operand of '+' is never an unparenthesized sum: a + b + c parses as
\* (a + b) + c.
ExprCST(n) ==
  IF n < 1 THEN {}
  ELSE IF n = 1 THEN {[k |-> "Name"], [k |-> "Num"]}
  ELSE {[k |-> "Paren", e |-> x] : x \in ExprCST(n - 2)}
       \cup UNION {{[k |-> "Bin", l |-> x, r |-> y] :
                      x \in ExprCST(m),
                      y \in {z \in ExprCST(n - 1 - m) : z.k # "Bin"}} :
                   m \in 1..(n - 2)}

\* The statements with exactly n tokens, the closing NEWLINE included.
StmtCST(n) ==
  {[k |-> "ExprStmt", e |-> x] : x \in ExprCST(n - 1)}
  \cup (IF n = 5 THEN {[k |-> "Import", level |-> 0]} ELSE {})
  \cup (IF n = 6 THEN {[k |-> "Import", level |-> 1]} ELSE {})

RECURSIVE ModCST(_, _)
\* The statement lists of at most k statements and at most n tokens.
ModCST(n, k) ==
  IF k = 0 \/ n < 2 THEN {<<>>}
  ELSE {<<>>} \cup UNION {{<<s>> \o r : s \in StmtCST(m), r \in ModCST(n - m, k - 1)} :
                          m \in 2..n}

\* Layouts.  op: spaces on each side of '+'; par: 0 nothing, 1 a space, 2 a
\* line break inside each parenthesis; hex: numbers are written 0x1 instead
\* of 1; trail: what follows each statement before its NEWLINE ("space",
\* "comment") or after it ("blank": an empty line).
Styles ==
  { [op |-> 0, par |-> 0, hex |-> FALSE, trail |-> "none"],
    [op |-> 1, par |-> 1, hex |-> TRUE,  trail |-> "space"],
    [op |-> 0, par |-> 2, hex |-> FALSE, trail |-> "comment"],
    [op |-> 1, par |-> 0, hex |-> TRUE,  trail |-> "blank"] }

Lex(type, src) == [type |-> type, src |-> src]
Spaces(n) == [i \in 1..n |-> " "]
WS(n) == IF n = 0 THEN <<>> ELSE <<Lex("WS", Spaces(n))>>

RECURSIVE ExprLex(_, _)
\* The lexemes (tokens and runs of spaces) of an expression.
ExprLex(c, sty) ==
  CASE c.k = "Name" -> <<Lex("NAME", <<"a">>)>>
    [] c.k = "Num" -> <<Lex("NUMBER", IF sty.hex THEN <<"0", "x", "1">> ELSE <<"1">>)>>
    [] c.k = "Paren" ->
         <<Lex("OP", <<"(">>)>>
         \o (IF sty.par = 2 THEN <<Lex("NL", <<NL>>)>> ELSE WS(sty.par))
         \o ExprLex(c.e, sty)
         \o (IF sty.par = 1 THEN WS(1) ELSE <<>>)
         \o <<Lex("OP", <<")">>)>>
    [] c.k = "Bin" ->
         ExprLex(c.l, sty) \o WS(sty.op) \o <<Lex("OP", <<"+">>)>> \o WS(sty.op)
         \o ExprLex(c.r, sty)

StmtLex(c, sty) ==
  (IF c.k = "ExprStmt" THEN ExprLex(c.e, sty)
   ELSE <<Lex("NAME", <<"f", "r", "o", "m">>)>> \o WS(1 + sty.op)
        \o (IF c.level = 1 THEN <<Lex("OP", <<".">>)>> \o WS(sty.par % 2) ELSE <<>>)
        \o <<Lex("NAME", <<"a">>)>> \o WS(1 + sty.op)
        \o <<Lex("NAME", <<"i", "m", "p", "o", "r", "t">>)>> \o WS(1)
        \o <<Lex("NAME", <<"b">>)>>)
  \o (CASE sty.trail = "space" -> WS(1)
        [] sty.trail = "comment" -> WS(1) \o <<Lex("COMMENT", <<"#", "c">>)>>
        [] OTHER -> <<>>)
  \o <<Lex("NEWLINE", <<NL>>)>>
  \o (IF sty.trail = "blank" THEN <<Lex("NL", <<NL>>)>> ELSE <<>>)

RECURSIVE ModLex(_, _)
ModLex(m, sty) == IF m = <<>> THEN <<>> ELSE StmtLex(Head(m), sty) \o ModLex(Tail(m), sty)

\* The text of a lexeme sequence.
SourceText(lx) == Concat([i \in 1..Len(lx) |-> lx[i].src])

RECURSIVE SplitLines(_, _)
\* source.splitlines(True): the lines, each with its line break.
SplitLines(text, cur) ==
  IF text = <<>> THEN (IF cur = <<>> THEN <<>> ELSE <<cur>>)
  ELSE IF Head(text) = NL THEN <<cur \o <<NL>>>> \o SplitLines(Tail(text), <<>>)
  ELSE SplitLines(Tail(text), cur \o <<Head(text)>>)

Tok(type, src, start, end) == [type |-> type, src |-> src, start |-> start, end |-> end]

RECURSIVE TokenizeFrom(_, _, _)
\* tokenize.generate_tokens on the lexemes: runs of spaces give no token, a
\* line break token ends the row, ENDMARKER sits on the row after the last.
TokenizeFrom(lx, row, col) ==
  IF lx = <<>> THEN <<Tok("ENDMARKER", <<>>, <<row, 0>>, <<row, 0>>)>>
  ELSE LET h == Head(lx)
           n == Len(h.src)
       IN  IF h.type = "WS" THEN TokenizeFrom(Tail(lx), row, col + n)
           ELSE <<Tok(h.type, h.src, <<row, col>>, <<row, col + n>>)>>
                \o (IF h.type \in {"NEWLINE", "NL"}
                    THEN TokenizeFrom(Tail(lx), row + 1, 0)
                    ELSE TokenizeFrom(Tail(lx), row, col + n))

Tokenize(lx) == TokenizeFrom(lx, 1, 0)

\* -------------------------------------------------------------------- trees
\* A node is a record: type, uid (its identity), its fields, and a, the
\* formatting dictionary a once setup_props has given it one.

NoFmt == <<>>

NameNode(uid) == [type |-> "Name", uid |-> uid, id |-> <<"a">>]
NumNode(uid, n) == [type |-> "Num", uid |-> uid, n |-> n]
OpNode(uid) == [type |-> "Add", uid |-> uid]

RECURSIVE ExprAst(_, _)
\* ast.parse on an expression: parentheses leave no node.
ExprAst(c, uid) ==
  CASE c.k = "Name" -> NameNode(uid)
    [] c.k = "Num" -> NumNode(uid, 1)
    [] c.k = "Paren" -> ExprAst(c.e, uid)
    [] c.k = "Bin" -> [type |-> "BinOp", uid |-> uid,
                       left |-> ExprAst(c.l, uid \o <<1>>),
                       op |-> OpNode(uid \o <<2>>),
                       right |-> ExprAst(c.r, uid \o <<3>>)]

StmtAst(c, uid) ==
  IF c.k = "ExprStmt"
  THEN [type |-> "Expr", uid |-> uid, value |-> ExprAst(c.e, uid \o <<1>>)]
  ELSE [type |-> "ImportFrom", uid |-> uid,
        module |-> <<"a">>, level |-> c.level,
        names |-> <<[type |-> "alias", uid |-> uid \o <<1>>,
                     name |-> <<"b">>]>>]

\* ast_utils.parse: the module of a statement list, each operator position
\* holding a node of its own.
ParseAst(m) ==
  [type |-> "Module", uid |-> <<>>,
   body |-> [i \in 1..Len(m) |-> StmtAst(m[i], <<i>>)]]

\* The generated sources: text lines, tokens and syntax tree.
Sources ==
  {LET lx == ModLex(m, sty)
   IN  [lines |-> SplitLines(SourceText(lx), <<>>),
        tokens |-> Tokenize(lx),
        ast |-> ParseAst(m),
        cst |-> m] :
   m \in ModCST(MaxLen, MaxStmts) \ {<<>>}, sty \in Styles}

VARIABLES
  lines,    \* TokenGenerator._lines: the source lines
  tokens,   \* TokenGenerator._tokens
  tree,     \* the syntax tree, with its formatting
  ts,       \* the token stream's state after the annotation pass
  phase,    \* "source", "parsed"
  impl,     \* the module whose TokenGenerator class serves the pass
  ws_comment,  \* the comment argument of token_generator.py's whitespace
  edit,     \* the change made to the tree since it was parsed
  out       \* the printer after pasta.dump

vars == <<lines, tokens, tree, ts, phase, impl, ws_comment, edit, out>>

\* ------------------------------------------------------- formatting store

\* node.a[name] of the defaultdict: '' when nothing was stored.
DictGet(a, name) == IF name \in DOMAIN a THEN a[name] ELSE <<>>

\* setup_props: a node without a dictionary gets an empty one
setup_props(node) == IF "a" \in DOMAIN node THEN node ELSE ("a" :> NoFmt) @@ node

\* prop: None (has = FALSE) for a node without a dictionary
prop(node, name) ==
  IF "a" \in DOMAIN node THEN [has |-> TRUE, v |-> DictGet(node.a, name)]
  ELSE [has |-> FALSE, v |-> <<>>]

setprop(node, name, value) ==
  LET n == setup_props(node) IN [n EXCEPT !.a = (name :> value) @@ n.a]

appendprop(node, name, value) ==
  [node EXCEPT !.a = (name :> (DictGet(node.a, name) \o value)) @@ node.a]

prependprop(node, name, value) ==
  [node EXCEPT !.a = (name :> (value \o DictGet(node.a, name))) @@ node.a]

\* ------------------------------------------- annotate.py: TokenGenerator
\* The state of a token stream: i (_i), loc (_loc), parens (_parens),
\* scope_stack (_scope_stack, each entry the uids of a closure), hints
\* (_hints), err, the exception that ended the pass ("" while none), and
\* mismatch, what AstAnnotator.token found when the token it was asked for
\* was not the next one.

NoneTok == [type |-> "None", src |-> <<>>, start |-> <<0, 0>>, end |-> <<0, 0>>]

NoMismatch == [seen |-> FALSE, expected |-> <<>>, found |-> <<>>, row |-> 0]

NewStream == [i |-> -1, loc |-> <<1, 0>>, parens |-> <<>>, scope_stack |-> <<>>,
              hints |-> 0, err |-> "", mismatch |-> NoMismatch]

Raise(st, e) == IF st.err = "" THEN [st EXCEPT !.err = e] ELSE st

\* A condition handed to takewhile is a function from the tokens of the
\* stream to BOOLEAN.
TokenSet == {tokens[k] : k \in 1..Len(tokens)}

\* The number of tokens after index i, one after the other, that satisfy
\* condition.
RunLength(i, condition) ==
  LET stop == {k \in (i + 2)..Len(tokens) : ~condition[tokens[k]]}
  IN  IF stop = {} THEN Len(tokens) - (i + 1)
      ELSE (CHOOSE k \in stop : \A j \in stop : k <= j) - (i + 2)

\* ast_utils.space_between
space_between(from_loc, to_loc, line, lns) ==
  IF from_loc[1] = to_loc[1] THEN Slice(line, from_loc[2], to_loc[2])
  ELSE SliceFrom(lns[from_loc[1]], from_loc[2])
       \o Concat(Slice(lns, from_loc[1], to_loc[1] - 1))
       \o (IF to_loc[2] # 0 THEN Slice(lns[to_loc[1]], 0, to_loc[2]) ELSE <<>>)

\* TokenGenerator._space_between: [text, err]
an_space_between(prev_loc, tok) ==
  IF LocGT(prev_loc, tok.start) THEN [text |-> <<>>, err |-> "ValueError"]
  ELSE IF prev_loc[1] > Len(lines) THEN [text |-> <<>>, err |-> ""]
  ELSE [text |-> space_between(prev_loc, tok.start, lines[prev_loc[1]], lines),
        err |-> ""]

\* TokenGenerator.peek: [tok, err]
an_peek(st) ==
  IF st.i >= Len(tokens) THEN [tok |-> NoneTok, err |-> ""]
  ELSE IF st.i + 1 >= Len(tokens) THEN [tok |-> NoneTok, err |-> "IndexError"]
  ELSE [tok |-> tokens[st.i + 2], err |-> ""]

\* TokenGenerator.next: [st, tok]
an_next(st, advance) ==
  LET j == st.i + 1
  IN  IF j >= Len(tokens) THEN [st |-> [st EXCEPT !.i = j], tok |-> NoneTok]
      ELSE [st |-> [st EXCEPT !.i = j,
                              !.loc = IF advance THEN tokens[j + 1].end ELSE @],
            tok |-> tokens[j + 1]]

\* TokenGenerator.rewind
an_rewind(st, amount) == [st EXCEPT !.i = @ - amount]

\* TokenGenerator.takewhile, run to its end: [st, toks]
an_takewhile(st, condition, advance) ==
  LET k == RunLength(st.i, condition)
      last == st.i + k + 1
  IN  [st |-> [st EXCEPT !.i = st.i + k,
                         !.loc = IF ~advance THEN @
                                 ELSE IF last < Len(tokens) THEN tokens[last + 1].end
                                 ELSE IF k > 0 THEN tokens[last].end
                                 ELSE @],
       toks |-> [j \in 1..k |-> tokens[st.i + 1 + j]]]

\* TokenGenerator.next_name: the next NAME token, the stream left where it
\* was (None, type "None", when no NAME follows)
an_next_name(st) ==
  LET Found(tw) == an_next(tw.st, FALSE).tok
  IN  Found(an_takewhile(st, [t \in TokenSet |-> t.type # "NAME"], FALSE))

RECURSIVE an_ws_fold(_, _, _, _)
\* The loop of whitespace over the formatting tokens and then next_token:
\* [text, loc, err]
an_ws_fold(toks, next_token, loc, acc) ==
  IF toks = <<>> THEN
    LET sp == an_space_between(loc, next_token)
    IN  [text |-> acc \o sp.text, loc |-> next_token.start, err |-> sp.err]
  ELSE
    LET tok == Head(toks)
        sp == an_space_between(loc, tok)
    IN  IF sp.err # "" THEN [text |-> acc, loc |-> loc, err |-> sp.err]
        ELSE an_ws_fold(Tail(toks), next_token, tok.end, acc \o sp.text \o tok.src)

an_ws_predicate(token, oneline) ==
  \/ token.type \in {"COMMENT", "INDENT", "DEDENT"}
  \/ ~oneline /\ token.type \in {"NL", "NEWLINE"}

\* TokenGenerator.whitespace: [st, text]
an_whitespace(st, oneline) ==
  LET Taken(tw) ==
        LET Peeked(pk) ==
              IF pk.err # "" THEN [st |-> Raise(tw.st, pk.err), text |-> <<>>]
              ELSE IF pk.tok.type = "None"
              THEN [st |-> Raise(tw.st, "TypeError"), text |-> <<>>]
              ELSE
                LET Folded(f, st1) ==
                      IF f.err # "" THEN [st |-> Raise(st1, f.err), text |-> <<>>]
                      ELSE IF pk.tok.type \in {"NL", "NEWLINE"}
                      THEN [st |-> an_next(st1, TRUE).st,
                            text |-> f.text \o an_next(st1, TRUE).tok.src]
                      ELSE [st |-> st1, text |-> f.text]
                    Fold(f) == Folded(f, [tw.st EXCEPT !.loc = f.loc])
                IN  Fold(an_ws_fold(tw.toks, pk.tok, tw.st.loc, <<>>))
        IN  Peeked(an_peek(tw.st))
  IN  Taken(an_takewhile(st, [t \in TokenSet |-> an_ws_predicate(t, oneline)], FALSE))

RECURSIVE scope_helper_old(_)
\* annotate.py's _scope_helper: the uids of the nodes an open parenthesis
\* met at this node may belong to.
scope_helper_old(node) ==
  CASE node.type \in {"Expr"} -> <<node.uid>> \o scope_helper_old(node.value)
    [] node.type = "BinOp" -> <<node.uid>> \o scope_helper_old(node.left)
    [] node.type = "AugAssign" -> <<node.uid>> \o scope_helper_old(node.target)
    [] OTHER -> <<node.uid>>

InSeq(x, s) == \E j \in 1..Len(s) : s[j] = x

\* Python's `t[1] in '('`: the empty text is in every text.
InText(tsrc, chars) == tsrc = <<>> \/ (Len(tsrc) = 1 /\ tsrc[1] \in chars)

RECURSIVE an_open_fold(_, _, _, _, _)
\* The loop of open_scope: [parens, last_paren_loc, err]
an_open_fold(toks, prev_loc, result, parens, last_paren_loc) ==
  IF toks = <<>> THEN [parens |-> parens, last_paren_loc |-> last_paren_loc, err |-> ""]
  ELSE
    LET tok == Head(toks)
        sp == an_space_between(prev_loc, tok)
        res == result \o sp.text \o tok.src
    IN  IF sp.err # "" THEN [parens |-> parens, last_paren_loc |-> last_paren_loc,
                             err |-> sp.err]
        ELSE IF tok.src = <<"(">>
        THEN an_open_fold(Tail(toks), tok.end, <<>>, Append(parens, res), tok.end)
        ELSE an_open_fold(Tail(toks), tok.end, res, parens, last_paren_loc)

an_open_predicate(token) ==
  token.type \in {"NL", "NEWLINE", "COMMENT", "INDENT"} \/ InText(token.src, {"("})

\* TokenGenerator.open_scope: the stream afterwards
an_open_scope(st, node) ==
  LET Opened(tw, nx, f, n) ==
        IF f.err # "" THEN Raise(nx.st, f.err)
        ELSE IF n > 0 THEN
          IF nx.tok.type = "None" THEN Raise(nx.st, "TypeError")
          ELSE
            LET Spaced(sp) ==
                  IF sp.err # "" THEN Raise(nx.st, sp.err)
                  ELSE an_rewind(
                         [nx.st EXCEPT
                            !.parens = @ \o [f.parens EXCEPT ![n] = @ \o sp.text],
                            !.scope_stack = @ \o [j \in 1..n |-> scope_helper_old(node)],
                            !.loc = nx.tok.start], 1)
            IN  Spaced(an_space_between(f.last_paren_loc, nx.tok))
        ELSE an_rewind(nx.st, Len(tw.toks) + 1)
      Fold(tw, f) == Opened(tw, an_next(tw.st, FALSE), f, Len(f.parens))
      Taken(tw) == Fold(tw, an_open_fold(tw.toks, st.loc, <<>>, <<>>, <<0, 0>>))
  IN  Taken(an_takewhile(st, [t \in TokenSet |-> an_open_predicate(t)], FALSE))

an_close_predicate(token) ==
  token.type \in {"NL", "NEWLINE", "COMMENT", "INDENT", "DEDENT"}
    \/ InText(token.src, {")"})

RECURSIVE an_close_fold(_, _, _, _, _)
\* The loop of close_scope over the tokens taken: [node, st, count]
an_close_fold(toks, c, prev_loc, result, count) ==
  IF toks = <<>> \/ c.st.err # "" THEN [node |-> c.node, st |-> c.st, count |-> count]
  ELSE
    LET tok == Head(toks)
        st == c.st
    IN  IF st.parens = <<>> \/ ~InSeq(c.node.uid, st.scope_stack[Len(st.scope_stack)])
        THEN an_close_fold(Tail(toks), c, prev_loc, result, count + 1)
        ELSE
          LET sp == an_space_between(prev_loc, tok)
              res == result \o sp.text \o tok.src
          IN  IF sp.err # "" THEN [node |-> c.node, st |-> Raise(st, sp.err),
                                   count |-> count + 1]
              ELSE IF tok.src = <<")">>
              THEN an_close_fold(
                     Tail(toks),
                     [node |-> appendprop(
                                 prependprop(c.node, "prefix", st.parens[Len(st.parens)]),
                                 "suffix", res),
                      st |-> [st EXCEPT !.scope_stack = SubSeq(@, 1, Len(@) - 1),
                                        !.parens = SubSeq(@, 1, Len(@) - 1),
                                        !.loc = tok.end]],
                     tok.end, <<>>, 0)
              ELSE an_close_fold(Tail(toks), c, tok.end, res, count + 1)

\* TokenGenerator.close_scope on the node being visited: [node, st]
an_close_scope(c) ==
  IF c.st.parens = <<>> THEN c
  ELSE
    LET Closed(f) ==
          [node |-> f.node,
           st |-> IF f.st.err # "" THEN f.st ELSE an_rewind(f.st, f.count)]
        Taken(tw) ==
          Closed(an_close_fold(tw.toks, [node |-> c.node, st |-> tw.st], c.st.loc, <<>>, 0))
    IN  Taken(an_takewhile(c.st, [t \in TokenSet |-> an_close_predicate(t)], FALSE))

\* TokenGenerator.hint_open / hint_closed
hint_open(st) == [st EXCEPT !.hints = @ + 1]
hint_closed(st) ==
  IF st.hints - 1 < 0 THEN Raise([st EXCEPT !.hints = @ - 1], "ValueError")
  ELSE [st EXCEPT !.hints = @ - 1]

\* ------------------------------------- token_generator.py: TokenGenerator
\* The same stream state.  A generator (takewhile) is modelled with its
\* consumer: each loop below is the for-loop over takewhile, the generator's
\* own prev_loc carried as gprev.

FORMATTING_TOKENS == {"INDENT", "DEDENT", "NL", "NEWLINE", "COMMENT"}

\* TokenGenerator._space_between: [text, err]
tg_space_between(prev_loc, tok) ==
  LET next_loc == tok.start
  IN  IF LocGT(prev_loc, next_loc) THEN [text |-> <<>>, err |-> "ValueError"]
      ELSE IF prev_loc[1] > Len(lines) THEN [text |-> <<>>, err |-> ""]
      ELSE IF prev_loc[1] = next_loc[1]
      THEN [text |-> Slice(lines[prev_loc[1]], prev_loc[2], next_loc[2]), err |-> ""]
      ELSE [text |-> SliceFrom(lines[prev_loc[1]], prev_loc[2])
                     \o Concat(Slice(lines, prev_loc[1], next_loc[1] - 1))
                     \o (IF next_loc[2] > 0 THEN Slice(lines[next_loc[1]], 0, next_loc[2])
                         ELSE <<>>),
            err |-> ""]

\* TokenGenerator.peek: the token, NoneTok at the end of input
tg_peek(st) == IF st.i + 1 >= Len(tokens) THEN NoneTok ELSE tokens[st.i + 2]

\* A faulty variant of next: the location moves whether or not advance is set.
tg_next_moves_loc(st, advance) ==
  LET j == st.i + 1
  IN  IF j >= Len(tokens) THEN [st |-> [st EXCEPT !.i = j], tok |-> NoneTok]
      ELSE [st |-> [st EXCEPT !.i = j, !.loc = tokens[j + 1].end], tok |-> tokens[j + 1]]

\* TokenGenerator.next: [st, tok]
tg_next(st, advance) ==
  LET j == st.i + 1
  IN  IF j >= Len(tokens) THEN [st |-> [st EXCEPT !.i = j], tok |-> NoneTok]
      ELSE [st |-> [st EXCEPT !.i = j,
                              !.loc = IF advance THEN tokens[j + 1].end ELSE @],
            tok |-> tokens[j + 1]]

\* TokenGenerator.rewind
tg_rewind(st, amount) == [st EXCEPT !.i = @ - amount]

\* list(self.takewhile(condition, advance=False)): [st, toks]
tg_takewhile_list(st, condition) ==
  LET k == RunLength(st.i, condition)
  IN  [st |-> [st EXCEPT !.i = st.i + k],
       toks |-> [j \in 1..k |-> tokens[st.i + 1 + j]]]

RECURSIVE tg_ws_fold(_, _, _, _)
\* The loop of whitespace: [text, loc, err]
tg_ws_fold(toks, next_token, loc, acc) ==
  IF toks = <<>> THEN
    IF next_token.type = "None" THEN [text |-> acc, loc |-> loc, err |-> ""]
    ELSE LET sp == tg_space_between(loc, next_token)
         IN  [text |-> acc \o sp.text, loc |-> next_token.start, err |-> sp.err]
  ELSE
    LET tok == Head(toks)
        sp == tg_space_between(loc, tok)
    IN  IF sp.err # "" THEN [text |-> acc, loc |-> loc, err |-> sp.err]
        ELSE tg_ws_fold(Tail(toks), next_token, tok.end, acc \o sp.text \o tok.src)

\* max_lines is None, 0 or 1; None is written -1.
NoLimit == -1

\* A faulty variant of the predicate: newline tokens are taken whatever
\* max_lines says.
tg_ws_predicate_any_lines(st, token, max_lines, comment) ==
  \/ token.type \in {"INDENT", "DEDENT"}
  \/ token.type = "COMMENT" /\ (comment \/ st.hints # 0)
  \/ token.type \in {"NL", "NEWLINE"}

tg_ws_predicate(st, token, max_lines, comment) ==
  \/ token.type \in {"INDENT", "DEDENT"}
  \/ token.type = "COMMENT" /\ (comment \/ st.hints # 0)
  \/ max_lines = NoLimit /\ token.type \in {"NL", "NEWLINE"}

\* TokenGenerator.whitespace: [st, text]
tg_whitespace(st, max_lines, comment) ==
  IF ~comment /\ tg_peek(st).type = "COMMENT" THEN [st |-> st, text |-> <<>>]
  ELSE
    LET Folded(next_token, f, st1) ==
          IF f.err # "" THEN [st |-> Raise(st1, f.err), text |-> <<>>]
          ELSE IF (max_lines = NoLimit \/ max_lines > 0)
                   /\ next_token.type \in {"NL", "NEWLINE"}
          THEN [st |-> tg_next(st1, TRUE).st,
                text |-> f.text \o tg_next(st1, TRUE).tok.src]
          ELSE [st |-> st1, text |-> f.text]
        Fold(tw, next_token, f) == Folded(next_token, f, [tw.st EXCEPT !.loc = f.loc])
        Peeked(tw, next_token) ==
          Fold(tw, next_token, tg_ws_fold(tw.toks, next_token, tw.st.loc, <<>>))
        Taken(tw) == Peeked(tw, tg_peek(tw.st))
    IN  Taken(tg_takewhile_list(
                st, [t \in TokenSet |-> tg_ws_predicate(st, t, max_lines, comment)]))

\* A faulty variant of _scope_helper: the closure is the node alone.
scope_helper_self(node) == <<node.uid>>

RECURSIVE scope_helper(_)
\* _scope_helper: the uids of the closure of a node
scope_helper(node) ==
  CASE node.type = "Expr" -> <<node.uid>> \o scope_helper(node.value)
    [] node.type = "BinOp" -> <<node.uid>> \o scope_helper(node.left)
    [] node.type = "AugAssign" -> <<node.uid>> \o scope_helper(node.target)
    [] node.type = "Tuple" /\ node.elts # <<>> -> <<node.uid>> \o scope_helper(node.elts[1])
    [] OTHER -> <<node.uid>>

tg_open_predicate(t) == t.type \in FORMATTING_TOKENS \/ t.src = <<"(">>

RECURSIVE tg_open_loop(_, _, _, _)
\* The for-loop of open_scope.  L holds its locals: result, parens, start_i,
\* start_loc, prev_loc.  The value is [st, L].
tg_open_loop(st, gprev, L, single_paren) ==
  LET nx == tg_next(st, TRUE)
      tok == nx.tok
  IN  IF tok.type = "None" \/ ~tg_open_predicate(tok)
      THEN [st |-> [tg_rewind(nx.st, 1) EXCEPT !.loc = gprev], L |-> L]
      ELSE
        LET sp == tg_space_between(L.prev_loc, tok)
            res == L.result \o sp.text
        IN  IF sp.err # "" THEN [st |-> Raise(nx.st, sp.err), L |-> L]
            ELSE IF tok.src = <<"(">> /\ single_paren /\ L.parens # <<>>
            THEN [st |-> [tg_rewind(nx.st, 1) EXCEPT !.loc = tok.start],
                  L |-> [L EXCEPT !.result = res]]
            ELSE IF tok.src = <<"(">>
            THEN tg_open_loop(nx.st, nx.st.loc,
                              [result |-> <<>>, parens |-> Append(L.parens, res \o tok.src),
                               start_i |-> nx.st.i, start_loc |-> nx.st.loc,
                               prev_loc |-> nx.st.loc],
                              single_paren)
            ELSE tg_open_loop(nx.st, nx.st.loc,
                              [L EXCEPT !.result = res \o tok.src, !.prev_loc = nx.st.loc],
                              single_paren)

\* A faulty variant of open_scope: without a parenthesis the stream stays
\* where the loop left it.
tg_open_scope_no_reset(st, node, single_paren) ==
  LET Loop(r) == IF Len(r.L.parens) > 0 THEN Raise(r.st, "AttributeError") ELSE r.st
  IN  Loop(tg_open_loop(st, st.loc,
                        [result |-> <<>>, parens |-> <<>>, start_i |-> st.i,
                         start_loc |-> st.loc, prev_loc |-> st.loc],
                        single_paren))

\* TokenGenerator.open_scope: the stream afterwards
tg_open_scope(st, node, single_paren) ==
  LET Looped(r, n) ==
        IF r.st.err # "" THEN r.st
        ELSE IF n > 0 THEN
          LET Peeked(next_tok) ==
                IF next_tok.type = "None" THEN Raise(r.st, "AttributeError")
                ELSE
                  LET Spaced(sp) ==
                        IF sp.err # "" THEN Raise(r.st, sp.err)
                        ELSE [r.st EXCEPT
                                !.loc = next_tok.start,
                                !.parens = @ \o [r.L.parens EXCEPT
                                                   ![n] = @ \o r.L.result \o sp.text],
                                !.scope_stack = @ \o [j \in 1..n |-> scope_helper(node)]]
                  IN  Spaced(tg_space_between(r.st.loc, next_tok))
          IN  Peeked(tg_peek(r.st))
        ELSE [r.st EXCEPT !.i = r.L.start_i, !.loc = r.L.start_loc]
      Loop(r) == Looped(r, Len(r.L.parens))
  IN  Loop(tg_open_loop(st, st.loc,
                        [result |-> <<>>, parens |-> <<>>, start_i |-> st.i,
                         start_loc |-> st.loc, prev_loc |-> st.loc],
                        single_paren))

\* fmt.get(node, name) is not None
fmt_has(node, name) == name \in DOMAIN node.a

tg_close_predicate(t, symbols) ==
  t.type \in FORMATTING_TOKENS \/ (Len(t.src) = 1 /\ t.src[1] \in symbols)

TopHolds(st, node) ==
  st.parens # <<>> /\ InSeq(node.uid, st.scope_stack[Len(st.scope_stack)])

\* A faulty variant of the pop in close_scope: the parenthesis text is used but
\* neither stack is popped.
tg_close_no_pop(c, prefix_attr, suffix_attr, result) ==
  [node |-> appendprop(prependprop(c.node, prefix_attr, c.st.parens[Len(c.st.parens)]),
                       suffix_attr, result),
   st |-> c.st]

\* A faulty variant of the pop in close_scope: the stack of scopes keeps its
\* top.
tg_close_pop_parens(c, prefix_attr, suffix_attr, result) ==
  [node |-> appendprop(prependprop(c.node, prefix_attr, c.st.parens[Len(c.st.parens)]),
                       suffix_attr, result),
   st |-> [c.st EXCEPT !.parens = SubSeq(@, 1, Len(@) - 1)]]

\* close_scope, on ')': self._scope_stack.pop(); fmt.prepend(node,
\* prefix_attr, self._parens.pop()); fmt.append(node, suffix_attr, result)
tg_close_pop(c, prefix_attr, suffix_attr, result) ==
  [node |-> appendprop(prependprop(c.node, prefix_attr, c.st.parens[Len(c.st.parens)]),
                       suffix_attr, result),
   st |-> [c.st EXCEPT !.scope_stack = SubSeq(@, 1, Len(@) - 1),
                       !.parens = SubSeq(@, 1, Len(@) - 1)]]

RECURSIVE tg_close_loop(_, _, _, _)
\* The for-loop of close_scope.  L holds its locals: result, prev_loc,
\* parsed_to_i, parsed_to_loc, encountered_paren.  P holds the arguments:
\* prefix_attr, suffix_attr, symbols, single_paren.  The value is [c, L].
tg_close_loop(c, gprev, L, P) ==
  LET nx == tg_next(c.st, TRUE)
      tok == nx.tok
      c1 == [node |-> c.node, st |-> nx.st]
  IN  IF tok.type = "None" \/ ~tg_close_predicate(tok, P.symbols)
      THEN [c |-> [c1 EXCEPT !.st = [tg_rewind(nx.st, 1) EXCEPT !.loc = gprev]], L |-> L]
      ELSE
        LET sp == tg_space_between(L.prev_loc, tok)
            res == L.result \o sp.text
        IN  IF sp.err # "" THEN [c |-> [c1 EXCEPT !.st = Raise(nx.st, sp.err)], L |-> L]
            ELSE IF tok.src = <<")">> /\ P.single_paren /\ L.encountered_paren
            THEN LET stb == tg_rewind(nx.st, 1)
                 IN  [c |-> [node |-> appendprop(c.node, P.suffix_attr, res), st |-> stb],
                      L |-> [L EXCEPT !.parsed_to_i = stb.i, !.parsed_to_loc = tok.start]]
            ELSE IF tok.src = <<")">>
            THEN LET c2 == tg_close_pop(c1, P.prefix_attr, P.suffix_attr, res \o tok.src)
                     L2 == [result |-> <<>>, prev_loc |-> tok.end,
                            parsed_to_i |-> c2.st.i, parsed_to_loc |-> tok.end,
                            encountered_paren |-> TRUE]
                 IN  IF ~TopHolds(c2.st, c2.node) THEN [c |-> c2, L |-> L2]
                     ELSE tg_close_loop(c2, c2.st.loc, L2, P)
            ELSE tg_close_loop(c1, c1.st.loc,
                               [L EXCEPT !.result = res \o tok.src, !.prev_loc = tok.end], P)

\* TokenGenerator.close_scope on the node being visited: [node, st]
tg_close_scope(c, prefix_attr, suffix_attr, trailing_comma, single_paren) ==
  LET Looped(r) ==
        IF r.c.st.err # "" THEN r.c
        ELSE [node |-> r.c.node,
              st |-> [r.c.st EXCEPT !.i = r.L.parsed_to_i, !.loc = r.L.parsed_to_loc]]
      Ready(c0) ==
        IF ~TopHolds(c.st, c.node) THEN c0
        ELSE Looped(tg_close_loop(c0, c.st.loc,
                                  [result |-> <<>>, prev_loc |-> c.st.loc,
                                   parsed_to_i |-> c.st.i, parsed_to_loc |-> c.st.loc,
                                   encountered_paren |-> FALSE],
                                  [prefix_attr |-> prefix_attr, suffix_attr |-> suffix_attr,
                                   symbols |-> IF trailing_comma THEN {")", ","} ELSE {")"},
                                   single_paren |-> single_paren]))
      WithSuffix(n) == IF fmt_has(n, suffix_attr) THEN n ELSE setprop(n, suffix_attr, <<>>)
      WithPrefix(n) == IF fmt_has(n, prefix_attr) THEN n ELSE setprop(n, prefix_attr, <<>>)
  IN  Ready([node |-> WithSuffix(WithPrefix(c.node)), st |-> c.st])

\* --------------------------------------------------- annotate.py: visitor
\* A visit works on c = [node, st]: the node being visited, with its
\* formatting and its children, and the token stream.  Once st.err is set the
\* pass has been aborted by that exception and nothing more happens.

Failed(c) == c.st.err # ""

\* AstAnnotator.ws.  With annotate.py's own TokenGenerator, whitespace takes
\* oneline; with token_generator.py's, oneline is max_lines = 1.
ws(st, oneline) ==
  IF impl = "annotate" THEN an_whitespace(st, oneline)
  ELSE tg_whitespace(st, IF oneline THEN 1 ELSE NoLimit, ws_comment)

\* The raise of AstAnnotator.token and _skip: the message is built from the
\* expected and the found text, the row of the found token and
\* self.tokens._lines[row - 1], which raises IndexError for a row after the
\* last line.
RaiseExpected(st, tok) ==
  Raise(st, IF tok.start[1] <= Len(lines) THEN "ValueError" ELSE "IndexError")

\* AstAnnotator.token: [st, text]
token(st, token_val) ==
  LET nx == an_next(st, TRUE)
  IN  IF nx.tok.type = "None" THEN [st |-> Raise(nx.st, "TypeError"), text |-> <<>>]
      ELSE IF nx.tok.src # token_val
      THEN [st |-> RaiseExpected([nx.st EXCEPT !.mismatch =
                                    [seen |-> TRUE, expected |-> token_val,
                                     found |-> nx.tok.src, row |-> nx.tok.start[1]]],
                                 nx.tok),
            text |-> <<>>]
      ELSE [st |-> IF InText(nx.tok.src, {"(", "{", "["}) THEN hint_open(nx.st)
                   ELSE IF InText(nx.tok.src, {")", "}", "]"}) THEN hint_closed(nx.st)
                   ELSE nx.st,
            text |-> nx.tok.src]

\* AstAnnotator._skip: [st, text]
skip(st, token_type) ==
  LET nx == an_next(st, TRUE)
  IN  IF nx.tok.type = "None" THEN [st |-> Raise(nx.st, "TypeError"), text |-> <<>>]
      ELSE IF nx.tok.type # token_type THEN [st |-> RaiseExpected(nx.st, nx.tok), text |-> <<>>]
      ELSE [st |-> nx.st, text |-> nx.tok.src]

\* One element of attr_vals appended to node.a[attr_name]: r = [st, text] is
\* what reading it gave.
AttrPart(c, attr_name, r) ==
  IF r.st.err # "" THEN [node |-> c.node, st |-> r.st]
  ELSE [node |-> appendprop(c.node, attr_name, r.text), st |-> r.st]

\* AstAnnotator.attr with attr_vals = [self.ws] (oneline as given)
attr_ws(c, attr_name, oneline) ==
  IF Failed(c) THEN c ELSE AttrPart(c, attr_name, ws(c.st, oneline))

\* AstAnnotator.attr with attr_vals = [token_val]
attr_token(c, attr_name, token_val) ==
  IF Failed(c) THEN c ELSE AttrPart(c, attr_name, token(c.st, token_val))

\* AstAnnotator.attr: the shadow copies node.a[dep + '__src'] of deps
DepKey(dep) == dep \o "__src"
attr_deps(c, deps) ==
  IF Failed(c) THEN c
  ELSE [c EXCEPT !.node.a =
          [k \in {DepKey(d) : d \in deps} |->
             c.node[CHOOSE d \in deps : DepKey(d) = k]] @@ c.node.a]

\* BaseVisitor.prefix / suffix
prefix(c) == attr_ws(c, "prefix", FALSE)
suffix(c, oneline) == attr_ws(c, "suffix", oneline)

\* self.token(val) inside a visit
visit_token(c, token_val) ==
  IF Failed(c) THEN c ELSE [node |-> c.node, st |-> token(c.st, token_val).st]

\* TokenGenerator.scope: entering and leaving the context manager
scope_enter(c) ==
  IF Failed(c) THEN c
  ELSE [node |-> c.node,
        st |-> IF impl = "annotate" THEN an_open_scope(c.st, c.node)
               ELSE tg_open_scope(c.st, c.node, FALSE)]
scope_exit(c) ==
  IF Failed(c) THEN c
  ELSE IF impl = "annotate" THEN an_close_scope(c)
  ELSE tg_close_scope(c, "prefix", "suffix", FALSE, FALSE)

\* visit_Name
visit_Name(c) == visit_token(c, c.node.id)

\* AstAnnotator.visit_Num
visit_Num(c) ==
  LET Content(c2) == IF Failed(c2) THEN c2 ELSE AttrPart(c2, "content", skip(c2.st, "NUMBER"))
      Sign(c1) == IF c.node.n < 0 THEN attr_token(c1, "content", <<"-">>) ELSE c1
  IN  Content(Sign(attr_deps(c, {"n"})))

\* visit_Add
visit_Add(c) == visit_token(c, <<"+">>)

\* visit_alias
visit_alias(c) == visit_token(c, c.node.name)

RECURSIVE module_pattern(_, _)
\* visit_ImportFrom: attr(node, 'module', ['.', ws] * level + [ws, module])
module_pattern(c, level) ==
  IF level = 0 THEN attr_token(attr_ws(c, "module", FALSE), "module", c.node.module)
  ELSE module_pattern(attr_ws(attr_token(c, "module", <<".">>), "module", FALSE),
                      level - 1)

\* AstAnnotator.check_is_elif: [st, is_elif]; next_tok[1] raises TypeError
\* when next_name found no NAME
check_is_elif(st, node) ==
  LET next_tok == an_next_name(st)
  IN  IF node.type # "If" THEN [st |-> st, is_elif |-> FALSE]
      ELSE IF next_tok.type = "None" THEN [st |-> Raise(st, "TypeError"), is_elif |-> FALSE]
      ELSE [st |-> st, is_elif |-> next_tok.src = <<"e", "l", "i", "f">>]

\* AstAnnotator.optional_suffix
optional_suffix(c, attr_name, token_val) ==
  LET Eaten(r) == AttrPart(c, attr_name, [st |-> r.st, text |-> token_val \o r.text])
      Peeked(pk) ==
        IF pk.err # "" THEN [node |-> c.node, st |-> Raise(c.st, pk.err)]
        ELSE IF pk.tok.type = "None" THEN [node |-> c.node, st |-> Raise(c.st, "TypeError")]
        ELSE IF pk.tok.src = token_val THEN Eaten(ws(an_next(c.st, TRUE).st, FALSE))
        ELSE c
  IN  IF Failed(c) THEN c ELSE Peeked(an_peek(c.st))

RECURSIVE visit(_, _)
RECURSIVE visit_list(_, _, _)

\* Visiting the nodes of a list field one after the other: [nodes, st]
visit_list(nodes, st, done) ==
  IF nodes = <<>> THEN [nodes |-> done, st |-> st]
  ELSE LET Visited(r) == visit_list(Tail(nodes), r.st, Append(done, r.node))
       IN  Visited(visit(Head(nodes), st))

\* visit_Expr
visit_Expr(c) ==
  LET Visited(v) == [node |-> [c.node EXCEPT !.value = v.node], st |-> v.st]
  IN  Visited(visit(c.node.value, c.st))

\* visit_BinOp
visit_BinOp(c) ==
  LET Right(l, o, r) ==
        [node |-> [c.node EXCEPT !.left = l.node, !.op = o.node, !.right = r.node],
         st |-> r.st]
      Op(l, o) == Right(l, o, suffix(visit(c.node.right, o.st), FALSE))
      Left(l) == Op(l, visit(c.node.op, l.st))
  IN  Left(suffix(visit(c.node.left, c.st), FALSE))

\* visit_ImportFrom
visit_ImportFrom(c) ==
  LET Names(c3, ns) == [node |-> [c3.node EXCEPT !.names = ns.nodes], st |-> ns.st]
      Import(c3) == Names(c3, visit_list(c.node.names, c3.st, <<>>))
      Module(c1) ==
        Import(visit_token(
                 attr_ws(module_pattern(attr_deps(c1, {"level", "module"}), c.node.level),
                         "module_suffix", FALSE),
                 <<"i", "m", "p", "o", "r", "t">>))
  IN  Module(attr_ws(visit_token(c, <<"f", "r", "o", "m">>), "module_prefix", FALSE))

\* ast_utils.prop(node, name) read as a condition
Truthy(node, name) == fmt_has(node, name) /\ Len(node.a[name]) > 0

\* visit_If
visit_If(c) ==
  LET Colon(c1, name) ==
        attr_ws(attr_token(attr_ws(c1, name, FALSE), name, <<":">>), name, FALSE)
      SetElse(c1, b) == [node |-> [c1.node EXCEPT !.orelse = b.nodes], st |-> b.st]
      ElseBody(c2) == SetElse(c2, visit_list(c.node.orelse, c2.st, <<>>))
      Else(c1) ==
        ElseBody(Colon(visit_token(attr_ws(c1, "elseprefix", FALSE), <<"e", "l", "s", "e">>),
                       "elsesuffix"))
      Nested(c1, v) == [node |-> [c1.node EXCEPT !.orelse = <<v.node>>], st |-> v.st]
      Elif(c1, chk) ==
        IF chk.st.err # "" THEN [node |-> c1.node, st |-> chk.st]
        ELSE IF chk.is_elif
        THEN Nested(c1, visit(setprop(c.node.orelse[1], "is_elif", <<TRUE>>), c1.st))
        ELSE Else(c1)
      OrElse(c1) ==
        IF Failed(c1) \/ c.node.orelse = <<>> THEN c1
        ELSE IF Len(c.node.orelse) = 1 /\ c.node.orelse[1].type = "If"
        THEN Elif(c1, check_is_elif(c1.st, c.node.orelse[1]))
        ELSE Else(c1)
      SetBody(c1, b) == [node |-> [c1.node EXCEPT !.body = b.nodes], st |-> b.st]
      Body(c1) == OrElse(SetBody(c1, visit_list(c.node.body, c1.st, <<>>)))
      SetTest(c1, v) ==
        Body(Colon([node |-> [c1.node EXCEPT !.test = v.node], st |-> v.st], "testsuffix"))
      Test(c1) == SetTest(c1, visit(c.node.test, c1.st))
  IN  Test(visit_token(c, IF Truthy(c.node, "is_elif") THEN <<"e", "l", "i", "f">>
                          ELSE <<"i", "f">>))

RECURSIVE visit_elts(_, _, _)
\* The loop of visit_List over node.elts: [nodes, st]
visit_elts(elts, st, done) ==
  IF elts = <<>> THEN [nodes |-> done, st |-> st]
  ELSE LET Rest(e) == visit_elts(Tail(elts), e.st, Append(done, e.node))
           Comma(e) == Rest(IF Len(elts) > 1 THEN visit_token(e, <<",">>) ELSE e)
       IN  Comma(suffix(visit(Head(elts), st), FALSE))

\* visit_List
visit_List(c) ==
  LET Close(c2) == visit_token(attr_ws(c2, "close_prefix", FALSE), <<"]">>)
      Extra(c2) ==
        Close(IF c.node.elts # <<>> THEN optional_suffix(c2, "extracomma", <<",">>) ELSE c2)
      Elts(c1, e) == Extra([node |-> [c1.node EXCEPT !.elts = e.nodes], st |-> e.st])
      Open(c1) == Elts(c1, visit_elts(c.node.elts, c1.st, <<>>))
  IN  Open(visit_token(c, <<"[">>))

\* The compound token of each operator visit_AugAssign knows
AUG_TOKENS ==
  ("Add" :> <<"+", "=">>) @@ ("Sub" :> <<"-", "=">>) @@ ("Mult" :> <<"*", "=">>)
  @@ ("Div" :> <<"/", "=">>) @@ ("Mod" :> <<"%", "=">>) @@ ("BitAnd" :> <<"&", "=">>)
  @@ ("BitOr" :> <<"|", "=">>) @@ ("BitXor" :> <<"^", "=">>)
  @@ ("FloorDiv" :> <<"/", "/", "=">>) @@ ("Pow" :> <<"*", "*", "=">>)

\* visit_AugAssign.  The else branch adds the node node.op to a str, which
\* raises TypeError before the ValueError is built.
visit_AugAssign(c) ==
  LET Value(c2, v) == [node |-> [c2.node EXCEPT !.value = v.node], st |-> v.st]
      Op(c1) ==
        IF Failed(c1) THEN c1
        ELSE IF c.node.op.type \in DOMAIN AUG_TOKENS
        THEN visit_token(c1, AUG_TOKENS[c.node.op.type])
        ELSE [node |-> c1.node, st |-> Raise(c1.st, "TypeError")]
      Valued(c2) == Value(c2, visit(c.node.value, c2.st))
      Target(t) == Valued(Op([node |-> [c.node EXCEPT !.target = t.node], st |-> t.st]))
  IN  Target(suffix(visit(c.node.target, c.st), FALSE))

\* visit_Module
visit_Module(c) ==
  LET Body(b) ==
        attr_ws([node |-> [c.node EXCEPT !.body = b.nodes], st |-> b.st], "suffix", FALSE)
  IN  Body(visit_list(c.node.body, c.st, <<>>))

\* The method the node's type selects.
visit_method(c) ==
  IF Failed(c) THEN c
  ELSE CASE c.node.type = "Module" -> visit_Module(c)
         [] c.node.type = "Expr" -> visit_Expr(c)
         [] c.node.type = "BinOp" -> visit_BinOp(c)
         [] c.node.type = "Name" -> visit_Name(c)
         [] c.node.type = "Num" -> visit_Num(c)
         [] c.node.type = "Add" -> visit_Add(c)
         [] c.node.type = "alias" -> visit_alias(c)
         [] c.node.type = "ImportFrom" -> visit_ImportFrom(c)
         [] c.node.type = "If" -> visit_If(c)
         [] c.node.type = "List" -> visit_List(c)
         [] c.node.type = "AugAssign" -> visit_AugAssign(c)

\* @parenthesizable
parenthesizable(c) == scope_exit(suffix(visit_method(prefix(scope_enter(c))), TRUE))

\* @spaced
spaced(c) == suffix(visit_method(prefix(c)), TRUE)

\* BaseVisitor.visit: the node annotated and the stream afterwards
visit(node, st) ==
  LET c == [node |-> setup_props(node), st |-> st]
  IN  IF st.err # "" THEN [node |-> node, st |-> st]
      ELSE CASE node.type \in {"Expr", "BinOp", "Name", "Num", "List", "AugAssign"} ->
                  parenthesizable(c)
             [] node.type \in {"Module", "ImportFrom", "alias", "If"} -> spaced(c)
             [] OTHER -> visit_method(c)

\* pasta.parse, after ast_utils.parse: the annotation pass over the tree
Annotate(t) == visit(t, NewStream)

\* ----------------------------------------------- ast_utils.py: tree edits
\* Nodes are compared by identity: two nodes are the same node when their
\* uids are equal.

\* The _fields of each node class, in order (those the model's nodes carry).
Fields(type) ==
  CASE type = "Module" -> <<"body">>
    [] type = "Expr" -> <<"value">>
    [] type = "BinOp" -> <<"left", "op", "right">>
    [] type = "ImportFrom" -> <<"module", "names", "level">>
    [] type = "If" -> <<"test", "body", "orelse">>
    [] type = "Assign" -> <<"targets", "value">>
    [] type = "Name" -> <<"id">>
    [] type = "Num" -> <<"n">>
    [] type = "alias" -> <<"name">>
    [] OTHER -> <<>>

\* The fields that hold a list of nodes, and those that hold one node.
ListFields == {"body", "orelse", "names", "targets"}
NodeFields == {"value", "left", "op", "right", "test"}

\* list.index(node), counted from 1; 0 when the node is not in the list
IndexOf(list, node) ==
  LET at == {j \in 1..Len(list) : list[j].uid = node.uid}
  IN  IF at = {} THEN 0 ELSE CHOOSE j \in at : \A k \in at : j <= k

RemoveAt(list, j) == SubSeq(list, 1, j - 1) \o SubSeq(list, j + 1, Len(list))
InsertAt(list, j, x) == SubSeq(list, 1, j) \o <<x>> \o SubSeq(list, j + 1, Len(list))

RECURSIVE remove_child_from(_, _, _)
\* A faulty variant of the loop of remove_child: the last element of the list goes.
remove_child_from_last(parent, child, fs) ==
  IF fs = <<>> THEN [parent |-> parent, err |-> "InvalidAstError"]
  ELSE LET f == Head(fs)
       IN  IF f \in DOMAIN parent /\ f \in ListFields /\ IndexOf(parent[f], child) > 0
           THEN [parent |-> [parent EXCEPT ![f] = SubSeq(@, 1, Len(@) - 1)], err |-> ""]
           ELSE remove_child_from(parent, child, Tail(fs))

\* The loop of remove_child over the fields fs still to be looked at.
remove_child_from(parent, child, fs) ==
  IF fs = <<>> THEN [parent |-> parent, err |-> "InvalidAstError"]
  ELSE LET f == Head(fs)
       IN  IF f \in DOMAIN parent /\ f \in ListFields /\ IndexOf(parent[f], child) > 0
           THEN [parent |-> [parent EXCEPT ![f] = RemoveAt(@, IndexOf(@, child))],
                 err |-> ""]
           ELSE remove_child_from(parent, child, Tail(fs))

\* remove_child: [parent, err]
remove_child(parent, child) == remove_child_from(parent, child, Fields(parent.type))

RECURSIVE replace_child_in(_, _, _, _)
\* The loop of replace_child over the fields fs still to be looked at.
\* list.index raises ValueError when the node is not in the list, which the
\* except clause (IndexError) does not catch; the raise after the loop names
\* child, which is not bound.
replace_child_in(parent, node, replace_with, fs) ==
  IF fs = <<>> THEN [parent |-> parent, err |-> "NameError"]
  ELSE LET f == Head(fs)
       IN  IF f \in DOMAIN parent /\ f \in NodeFields /\ parent[f].uid = node.uid
           THEN [parent |-> [parent EXCEPT ![f] = replace_with], err |-> ""]
           ELSE IF f \in DOMAIN parent /\ f \in ListFields
           THEN IF IndexOf(parent[f], node) > 0
                THEN [parent |-> [parent EXCEPT ![f][IndexOf(parent[f], node)] = replace_with],
                      err |-> ""]
                ELSE [parent |-> parent, err |-> "ValueError"]
           ELSE replace_child_in(parent, node, replace_with, Tail(fs))

\* replace_child: [parent, replace_with, err]
replace_child(parent, node, replace_with) ==
  LET Replaced(new, r) == [parent |-> r.parent, replace_with |-> new, err |-> r.err]
      Formatted(new) == Replaced(new, replace_child_in(parent, node, new, Fields(parent.type)))
  IN  Formatted(IF "a" \in DOMAIN node
                THEN setprop(setprop(replace_with, "prefix", prop(node, "prefix").v),
                             "suffix", prop(node, "suffix").v)
                ELSE replace_with)

\* ------------------------------------------------------ codegen.py: Printer
\* The printer is p = [code, err, log]: the text so far, the exception that
\* has ended the pass ("" while there is none), and a record of which text
\* was added for which attribute of which node.  A visit works on
\* c = [node, p, info], info being node._printer_info: the attribute names
\* already emitted for the node being visited.

NewPrinter == [code |-> <<>>, err |-> "", log |-> <<>>]

\* self.code += text, for attribute attr_name of the node ("" for a token)
Emit(c, attr_name, text) ==
  [c EXCEPT !.p.code = @ \o text,
            !.p.log = Append(@, [uid |-> c.node.uid, attr |-> attr_name, text |-> text])]

\* str.isalnum on one character of the model's alphabet
isalnum(ch) == ch \notin {" ", NL, "(", ")", "+", ".", "#", ","}

\* fmt.get(node, name): None (has = FALSE) when nothing is stored
fmt_get(node, name) ==
  IF "a" \in DOMAIN node /\ name \in DOMAIN node.a THEN [has |-> TRUE, v |-> node.a[name]]
  ELSE [has |-> FALSE, v |-> <<>>]

\* A default of None, and a default text
NoDefault == [has |-> FALSE, v |-> <<>>]
Default(text) == [has |-> TRUE, v |-> text]

\* The text Printer.attr selects: the stored one, or the default when none is
\* stored or a dependency is found changed.  A dependency is looked for as an
\* attribute dep + '__src' of the node itself.
attr_val(node, attr_name, deps, default) ==
  LET val == fmt_get(node, attr_name)
      changed == \E dep \in deps :
                   /\ DepKey(dep) \in DOMAIN node
                   /\ node[dep] # fmt_get(node, DepKey(dep)).v
      chosen == IF ~val.has \/ changed THEN default ELSE val
  IN  IF chosen.has THEN chosen.v ELSE <<>>

\* Printer.attr.  The name separate_before is bound nowhere: reading it
\* raises NameError before anything is added to the code.
Printer_attr(c, attr_name, deps, default) ==
  IF c.p.err # "" THEN c
  ELSE IF attr_name \in c.info THEN c
  ELSE LET val == attr_val(c.node, attr_name, deps, default)
       IN  [c EXCEPT !.info = @ \cup {attr_name}, !.p = Raise(@, "NameError")]

\* Printer.token
Printer_token(c, token_val, separate_before) ==
  IF c.p.err # "" THEN c
  ELSE LET code == c.p.code
           sep == IF separate_before /\ code # <<>> /\ isalnum(code[Len(code)])
                     /\ (token_val = <<>> \/ isalnum(token_val[1]))
                  THEN <<" ">> ELSE <<>>
       IN  Emit(c, "", sep \o token_val)

\* BaseVisitor.prefix / suffix, as the printer runs them
Printer_prefix(c) == Printer_attr(c, "prefix", {}, NoDefault)
Printer_suffix(c) == Printer_attr(c, "suffix", {}, NoDefault)

\* repr(node.n), for a number of one digit
Repr(n) == <<ToString(n)>>

\* '.' * node.level
Dots(level) == [j \in 1..level |-> "."]

\* Printer.visit_Num
Printer_visit_Num(c) ==
  LET Content(c1) ==
        IF c1.p.err # "" THEN c1
        ELSE Emit(c1, "content",
                  IF fmt_get(c1.node, "content").has THEN fmt_get(c1.node, "content").v
                  ELSE Repr(c1.node.n))
  IN  Printer_suffix(Content(Printer_prefix(c)))

RECURSIVE Printer_visit(_, _)
RECURSIVE Printer_visit_list(_, _)

\* The visits of the nodes of a list, one after the other
Printer_visit_list(nodes, p) ==
  IF nodes = <<>> THEN p ELSE Printer_visit_list(Tail(nodes), Printer_visit(Head(nodes), p))

\* Printer.visit_Module
Printer_visit_Module(c) ==
  LET Body(c2) == [c2 EXCEPT !.p = Printer_visit_list(c2.node.body, c2.p)]
      Bom(c1) ==
        IF c1.p.err # "" \/ ~fmt_get(c1.node, "bom").has THEN c1
        ELSE Emit(c1, "bom", fmt_get(c1.node, "bom").v)
  IN  Printer_suffix(Body(Bom(Printer_prefix(c))))

\* BaseVisitor.visit_Expr, as the printer runs it
Printer_visit_Expr(c) == [c EXCEPT !.p = Printer_visit(c.node.value, c.p)]

\* BaseVisitor.visit_BinOp, as the printer runs it.  suffix(node.left) and
\* suffix(node.right) find no _printer_info on the operand, whose visit is
\* over, and return.
Printer_visit_BinOp(c) ==
  [c EXCEPT !.p = Printer_visit(c.node.right,
                    Printer_visit(c.node.op, Printer_visit(c.node.left, c.p)))]

\* BaseVisitor.visit_ImportFrom, as the printer runs it
Printer_visit_ImportFrom(c) ==
  LET Names(c3) == [c3 EXCEPT !.p = Printer_visit_list(c3.node.names, c3.p)]
      Module(c1) ==
        Printer_token(
          Printer_attr(
            Printer_attr(c1, "module", {"level", "module"},
                         Default(Dots(c.node.level) \o c.node.module)),
            "module_suffix", {}, Default(<<" ">>)),
          <<"i", "m", "p", "o", "r", "t">>, FALSE)
  IN  Names(Module(Printer_attr(Printer_token(c, <<"f", "r", "o", "m">>, FALSE),
                                "module_prefix", {}, Default(<<" ">>))))

\* Printer.check_is_elif
Printer_check_is_elif(node) == Truthy(setup_props(node), "is_elif")

\* BaseVisitor.visit_If, as the printer runs it
Printer_visit_If(c) ==
  LET Stmts(c1, nodes) == [c1 EXCEPT !.p = Printer_visit_list(nodes, c1.p)]
      Else(c1) ==
        Stmts(Printer_attr(
                Printer_token(Printer_attr(c1, "elseprefix", {}, NoDefault),
                              <<"e", "l", "s", "e">>, FALSE),
                "elsesuffix", {}, Default(<<":">>)),
              c.node.orelse)
      OrElse(c1) ==
        IF c1.p.err # "" \/ c.node.orelse = <<>> THEN c1
        ELSE IF /\ Len(c.node.orelse) = 1
                /\ c.node.orelse[1].type = "If"
                /\ Printer_check_is_elif(c.node.orelse[1])
        THEN Stmts(c1, c.node.orelse)
        ELSE Else(c1)
      Test(c1) ==
        Stmts(Printer_attr([c1 EXCEPT !.p = Printer_visit(c.node.test, c1.p)],
                           "testsuffix", {}, Default(<<":">>)),
              c.node.body)
  IN  OrElse(Test(Printer_token(c, IF Truthy(c.node, "is_elif") THEN <<"e", "l", "i", "f">>
                                   ELSE <<"i", "f">>, FALSE)))

RECURSIVE Printer_visit_elts(_, _)
\* The loop of visit_List over node.elts, as the printer runs it
Printer_visit_elts(elts, c) ==
  IF elts = <<>> THEN c
  ELSE LET Comma(c1) == IF Len(elts) > 1 THEN Printer_token(c1, <<",">>, FALSE) ELSE c1
       IN  Printer_visit_elts(Tail(elts),
                              Comma([c EXCEPT !.p = Printer_visit(Head(elts), c.p)]))

\* BaseVisitor.visit_List, as the printer runs it.  The printer defines
\* optional_token and no optional_suffix: the call reaches
\* BaseVisitor.optional_suffix, which takes no argument, and raises TypeError.
Printer_visit_List(c) ==
  LET Close(c2) ==
        Printer_token(Printer_attr(c2, "close_prefix", {}, NoDefault), <<"]">>, FALSE)
      Extra(c1) ==
        Close(IF c1.p.err = "" /\ c.node.elts # <<>>
              THEN [c1 EXCEPT !.p = Raise(@, "TypeError")] ELSE c1)
  IN  Extra(Printer_visit_elts(c.node.elts, Printer_token(c, <<"[">>, FALSE)))

\* The method the node's type selects, with its decorator.
Printer_method(c) ==
  CASE c.node.type = "Module" -> Printer_visit_Module(c)
    [] c.node.type = "Num" -> Printer_visit_Num(c)
    [] c.node.type = "Expr" -> Printer_suffix(Printer_visit_Expr(Printer_prefix(c)))
    [] c.node.type = "BinOp" -> Printer_suffix(Printer_visit_BinOp(Printer_prefix(c)))
    [] c.node.type = "Name" ->
         Printer_suffix(Printer_token(Printer_prefix(c), c.node.id, FALSE))
    [] c.node.type = "alias" ->
         Printer_suffix(Printer_token(Printer_prefix(c), c.node.name, FALSE))
    [] c.node.type = "ImportFrom" ->
         Printer_suffix(Printer_visit_ImportFrom(Printer_prefix(c)))
    [] c.node.type = "If" -> Printer_suffix(Printer_visit_If(Printer_prefix(c)))
    [] c.node.type = "List" -> Printer_suffix(Printer_visit_List(Printer_prefix(c)))
    [] c.node.type = "Add" -> Printer_token(c, <<"+">>, FALSE)

\* Printer.visit: TypeError, ValueError, IndexError and KeyError become
\* PrintError; any other exception passes through.  For a child that is
\* None the first statement, node._printer_info = ..., raises AttributeError
\* before the try.
Printer_visit(node, p) ==
  IF p.err # "" THEN p
  ELSE IF node.type = "None" THEN Raise(p, "AttributeError")
  ELSE LET Visited(r) ==
             IF r.err \in {"TypeError", "ValueError", "IndexError", "KeyError"}
             THEN [r EXCEPT !.err = "PrintError"] ELSE r
       IN  Visited(Printer_method([node |-> setup_props(node), p |-> p, info |-> {}]).p)


\* --------------------------------------------------------------- the tree

RECURSIVE Nodes(_)
RECURSIVE NodesOf(_)
\* ast.walk: the nodes of a tree
NodesOf(list) == IF list = <<>> THEN {} ELSE Nodes(Head(list)) \cup NodesOf(Tail(list))
Nodes(t) ==
  {t} \cup
  (CASE t.type = "Module" -> NodesOf(t.body)
     [] t.type = "Expr" -> Nodes(t.value)
     [] t.type = "BinOp" -> Nodes(t.left) \cup Nodes(t.op) \cup Nodes(t.right)
     [] t.type = "ImportFrom" -> NodesOf(t.names)
     [] t.type = "If" -> Nodes(t.test) \cup NodesOf(t.body) \cup NodesOf(t.orelse)
     [] t.type = "List" \/ t.type = "Tuple" -> NodesOf(t.elts)
     [] t.type = "AugAssign" -> Nodes(t.target) \cup Nodes(t.op) \cup Nodes(t.value)
     [] OTHER -> {})

\* to_str: seen_indent_diffs, the number of nodes that store each non-empty
\* indent_diff
seen_indent_diffs(t) ==
  LET stored == {fmt_get(n, "indent_diff").v : n \in Nodes(t)} \ {<<>>}
  IN  [d \in stored |-> Cardinality({n \in Nodes(t) : fmt_get(n, "indent_diff").v = d})]

\* to_str: the values max(seen_indent_diffs.items(), key=count) can return
most_seen(t) ==
  LET seen == seen_indent_diffs(t)
  IN  {d \in DOMAIN seen : \A e \in DOMAIN seen : seen[e] <= seen[d]}

\* codegen.to_str, which is pasta.dump.  When a node stores an indent_diff,
\* p.set_default_indent_diff is called, which no class of the source
\* defines: AttributeError, raised outside Printer.visit.
to_str(t) ==
  IF DOMAIN seen_indent_diffs(t) # {} THEN Raise(NewPrinter, "AttributeError")
  ELSE Printer_visit(t, NewPrinter)

RECURSIVE Assign(_, _, _, _)
\* setattr(node, field, value) on the node of t whose identity is uid
Assign(t, uid, field, value) ==
  IF t.uid = uid THEN [t EXCEPT ![field] = value]
  ELSE CASE t.type = "Module" ->
              [t EXCEPT !.body = [j \in 1..Len(@) |-> Assign(@[j], uid, field, value)]]
         [] t.type = "Expr" -> [t EXCEPT !.value = Assign(@, uid, field, value)]
         [] t.type = "BinOp" ->
              [t EXCEPT !.left = Assign(@, uid, field, value),
                        !.right = Assign(@, uid, field, value)]
         [] OTHER -> t

\* A statement built by hand, never annotated: the expression statement z
NewStmt ==
  [type |-> "Expr", uid |-> <<0>>,
   value |-> [type |-> "Name", uid |-> <<0, 1>>, id |-> <<"z">>]]

\* The numbers and module names an edit may assign
NumValues == {1, 2}
ModuleNames == {<<"a">>, <<"c">>}
NoEdit == [kind |-> "none", uid |-> <<>>]

Init ==
  /\ \E s \in Sources : lines = s.lines /\ tokens = s.tokens /\ tree = s.ast
  /\ ts = NewStream
  /\ phase = "source"
  /\ \/ impl = "annotate" /\ ws_comment = FALSE
     \/ impl = "token_generator" /\ ws_comment \in BOOLEAN
  /\ edit = NoEdit
  /\ out = NewPrinter

\* pasta.parse; when the annotation pass raises, no tree is returned
Parse ==
  /\ phase = "source"
  /\ LET Parsed(r) ==
           /\ tree' = r.node
           /\ ts' = r.st
           /\ phase' = IF r.st.err = "" THEN "parsed" ELSE "failed"
     IN  Parsed(Annotate(tree))
  /\ UNCHANGED <<lines, tokens, impl, ws_comment, edit, out>>

\* node.n = v, on a number of the parsed tree
SetNum ==
  /\ phase = "parsed"
  /\ \E n \in {x \in Nodes(tree) : x.type = "Num"} : \E v \in NumValues \ {n.n} :
       /\ tree' = Assign(tree, n.uid, "n", v)
       /\ edit' = [kind |-> "num", uid |-> n.uid]
  /\ phase' = "edited"
  /\ UNCHANGED <<lines, tokens, ts, impl, ws_comment, out>>

\* node.module = m, on an import of the parsed tree
SetModule ==
  /\ phase = "parsed"
  /\ \E n \in {x \in Nodes(tree) : x.type = "ImportFrom"} :
     \E m \in ModuleNames \ {n.module} :
       /\ tree' = Assign(tree, n.uid, "module", m)
       /\ edit' = [kind |-> "module", uid |-> n.uid]
  /\ phase' = "edited"
  /\ UNCHANGED <<lines, tokens, ts, impl, ws_comment, out>>

\* node.level = l, on an import of the parsed tree
SetLevel ==
  /\ phase = "parsed"
  /\ \E n \in {x \in Nodes(tree) : x.type = "ImportFrom"} : \E l \in {0, 1} \ {n.level} :
       /\ tree' = Assign(tree, n.uid, "level", l)
       /\ edit' = [kind |-> "level", uid |-> n.uid]
  /\ phase' = "edited"
  /\ UNCHANGED <<lines, tokens, ts, impl, ws_comment, out>>

\* tree.body.insert(j, stmt) (tree.body.append(stmt) when j = len(tree.body))
InsertStmt ==
  /\ phase = "parsed"
  /\ \E j \in 0..Len(tree.body) :
       /\ tree' = [tree EXCEPT !.body = InsertAt(@, j, NewStmt)]
       /\ edit' = [kind |-> "insert", uid |-> NewStmt.uid]
  /\ phase' = "edited"
  /\ UNCHANGED <<lines, tokens, ts, impl, ws_comment, out>>

\* ast_utils.remove_child(tree, stmt)
RemoveStmt ==
  /\ phase = "parsed"
  /\ \E j \in 1..Len(tree.body) :
       LET Removed(r) ==
             /\ r.err = ""
             /\ tree' = r.parent
             /\ edit' = [kind |-> "remove", uid |-> tree.body[j].uid]
       IN  Removed(remove_child(tree, tree.body[j]))
  /\ phase' = "edited"
  /\ UNCHANGED <<lines, tokens, ts, impl, ws_comment, out>>

\* pasta.dump
Dump ==
  /\ phase \in {"parsed", "edited"}
  /\ out' = to_str(tree)
  /\ phase' = "dumped"
  /\ UNCHANGED <<lines, tokens, tree, ts, impl, ws_comment, edit>>

Next == Parse \/ SetNum \/ SetModule \/ SetLevel \/ InsertStmt \/ RemoveStmt \/ Dump

Spec == Init /\ [][Next]_vars
\* ------------------------------------------- the tree edits on their own
\* tree is the parent handed to remove_child or replace_child, edit the call
\* made: the parent before it, the node and the replacement passed, and the
\* exception raised ("" when the call returned).

\* The nodes that may be children: with stored prefix and suffix, with an
\* empty dictionary, and without a dictionary.
Kid(k) ==
  CASE k = 1 -> [type |-> "Name", uid |-> <<1>>, id |-> <<"a">>,
                 a |-> [prefix |-> <<" ">>, suffix |-> <<" ", " ">>]]
    [] k = 2 -> [type |-> "Name", uid |-> <<2>>, id |-> <<"a">>, a |-> NoFmt]
    [] k = 3 -> [type |-> "Name", uid |-> <<3>>, id |-> <<"a">>]
    [] k = 4 -> [type |-> "Name", uid |-> <<4>>, id |-> <<"a">>,
                 a |-> [prefix |-> <<"(">>, suffix |-> <<")">>]]
Kids == {Kid(k) : k \in 1..4}

\* The nodes that may replace a child: bare, and with formatting of its own.
Replacements ==
  { [type |-> "Name", uid |-> <<9>>, id |-> <<"z">>],
    [type |-> "Name", uid |-> <<9>>, id |-> <<"z">>,
     a |-> [prefix |-> <<NL>>, suffix |-> <<NL>>]] }

\* The lists of at most MaxKids different nodes of S.
KidLists(S) ==
  {q \in UNION {[1..m -> S] : m \in 0..MaxKids} : \A i, j \in DOMAIN q : i # j => q[i] # q[j]}

Uses(list) == {list[j] : j \in DOMAIN list}

\* The parents: a Module, an If, an Assign and a BinOp over the Kids.
EditParents ==
  {[type |-> "Module", uid |-> <<>>, body |-> q] : q \in KidLists(Kids)}
  \cup UNION {UNION {{[type |-> "If", uid |-> <<>>, test |-> t, body |-> q, orelse |-> e] :
                        e \in KidLists(Kids \ ({t} \cup Uses(q)))} :
                     q \in KidLists(Kids \ {t})} : t \in Kids}
  \cup UNION {{[type |-> "Assign", uid |-> <<>>, targets |-> q, value |-> v] :
                 q \in KidLists(Kids \ {v})} : v \in Kids}
  \cup UNION {{[type |-> "BinOp", uid |-> <<>>, left |-> l, op |-> OpNode(<<8>>),
                  right |-> r] : r \in Kids \ {l}} : l \in Kids}

NoCall == [kind |-> "none", before |-> <<>>, node |-> <<>>, new |-> <<>>, err |-> ""]

EditInit ==
  /\ tree \in EditParents
  /\ edit = NoCall
  /\ phase = "tree"
  /\ lines = <<>> /\ tokens = <<>> /\ ts = NewStream
  /\ impl = "annotate" /\ ws_comment = FALSE /\ out = NewPrinter

\* ast_utils.remove_child(tree, child)
RemoveChild ==
  /\ phase = "tree"
  /\ \E child \in Kids :
       LET Called(r) ==
             /\ tree' = r.parent
             /\ edit' = [kind |-> "remove_child", before |-> tree, node |-> child,
                         new |-> child, err |-> r.err]
       IN  Called(remove_child(tree, child))
  /\ phase' = "called"
  /\ UNCHANGED <<lines, tokens, ts, impl, ws_comment, out>>

\* ast_utils.replace_child(tree, node, replace_with)
ReplaceChild ==
  /\ phase = "tree"
  /\ \E node \in Kids : \E replace_with \in Replacements :
       LET Called(r) ==
             /\ tree' = r.parent
             /\ edit' = [kind |-> "replace_child", before |-> tree, node |-> node,
                         new |-> r.replace_with, err |-> r.err]
       IN  Called(replace_child(tree, node, replace_with))
  /\ phase' = "called"
  /\ UNCHANGED <<lines, tokens, ts, impl, ws_comment, out>>

EditNext == RemoveChild \/ ReplaceChild

EditSpec == EditInit /\ [][EditNext]_vars

\* ------------------------------------------ the token stream on its own
\* tokens is the stream, ts its cursor, impl the class (annotate.py's
\* TokenGenerator or token_generator.py's), edit the call made: the cursor
\* before it, the token returned, the exception raised, and for look-ahead
\* the cursor when the present run of next(advance=False) began (mark) and
\* how many such calls the run has (ahead).

NoLook == [kind |-> "none", before |-> NewStream, tok |-> NoneTok, err |-> "",
           advance |-> TRUE, n |-> 0, mark |-> NewStream, ahead |-> 0, looked |-> 0]

StreamInit ==
  /\ \E s \in {x \in Sources : Len(x.tokens) <= MaxStream} :
       lines = s.lines /\ tokens = s.tokens /\ tree = s.ast
  /\ ts = NewStream
  /\ impl \in {"annotate", "token_generator"}
  /\ edit = NoLook
  /\ phase = "stream"
  /\ ws_comment = FALSE /\ out = NewPrinter

\* peek(), which raises or returns and moves nothing
Peek ==
  /\ phase = "stream"
  /\ LET Called(r) == edit' = [edit EXCEPT !.kind = "peek", !.before = ts,
                                           !.tok = r.tok, !.err = r.err]
     IN  Called(IF impl = "annotate" THEN an_peek(ts)
                ELSE [tok |-> tg_peek(ts), err |-> ""])
  /\ UNCHANGED <<lines, tokens, tree, ts, phase, impl, ws_comment, out>>

\* next(advance): the cursor may pass the last token by one
StreamNext ==
  /\ phase = "stream"
  /\ ts.i < Len(tokens)
  /\ \E advance \in BOOLEAN :
       LET Called(r) ==
             /\ ts' = r.st
             /\ edit' = [edit EXCEPT
                           !.kind = "next", !.before = ts, !.tok = r.tok, !.err = "",
                           !.advance = advance,
                           !.mark = IF advance THEN r.st ELSE IF edit.ahead = 0 THEN ts ELSE @,
                           !.ahead = IF advance THEN 0 ELSE @ + 1]
       IN  Called(IF impl = "annotate" THEN an_next(ts, advance) ELSE tg_next(ts, advance))
  /\ UNCHANGED <<lines, tokens, tree, phase, impl, ws_comment, out>>

\* rewind(amount), never to before the start of the stream
Rewind ==
  /\ phase = "stream"
  /\ \E amount \in 1..MaxRewind :
       /\ ts.i - amount >= -1
       /\ ts' = (IF impl = "annotate" THEN an_rewind(ts, amount) ELSE tg_rewind(ts, amount))
       /\ edit' = [edit EXCEPT !.kind = "rewind", !.before = ts, !.tok = NoneTok,
                               !.err = "", !.n = amount, !.looked = edit.ahead,
                               !.ahead = 0]
  /\ UNCHANGED <<lines, tokens, tree, phase, impl, ws_comment, out>>

StreamStep == Peek \/ StreamNext \/ Rewind

StreamSpec == StreamInit /\ [][StreamStep]_vars

\* ------------------------------------------------- properties of pasta.dump

RECURSIVE Captured(_)
RECURSIVE CapturedList(_)
\* The text a subtree's formatting describes: each stored text in its place,
\* '' where nothing is stored, between the tokens of the nodes.
CapturedList(nodes) ==
  IF nodes = <<>> THEN <<>> ELSE Captured(Head(nodes)) \o CapturedList(Tail(nodes))
Captured(n) ==
  prop(n, "prefix").v
  \o (CASE n.type = "Module" -> CapturedList(n.body)
        [] n.type = "Expr" -> Captured(n.value)
        [] n.type = "BinOp" -> Captured(n.left) \o Captured(n.op) \o Captured(n.right)
        [] n.type = "Name" -> n.id
        [] n.type = "Num" -> IF fmt_get(n, "content").has THEN fmt_get(n, "content").v
                             ELSE Repr(n.n)
        [] n.type = "Add" -> <<"+">>
        [] n.type = "alias" -> n.name
        [] n.type = "ImportFrom" ->
             <<"f", "r", "o", "m">>
             \o (IF fmt_get(n, "module_prefix").has THEN fmt_get(n, "module_prefix").v
                 ELSE <<" ">>)
             \o (IF fmt_get(n, "module").has THEN fmt_get(n, "module").v
                 ELSE Dots(n.level) \o n.module)
             \o (IF fmt_get(n, "module_suffix").has THEN fmt_get(n, "module_suffix").v
                 ELSE <<" ">>)
             \o <<"i", "m", "p", "o", "r", "t">> \o CapturedList(n.names))
  \o prop(n, "suffix").v

\* The annotation pass of annotate.py loses nothing: the formatting of a
\* parsed tree describes the source text.
AnnotationCapturesSource ==
  (phase = "parsed" /\ impl = "annotate") => Captured(tree) = Concat(lines)

\* C1: for every source S that parses, dump(parse(S)) equals S character for
\* character.  As stated; the printer raises NameError instead.
C1_RoundTrip ==
  (phase = "dumped" /\ edit.kind = "none") => (out.err = "" /\ out.code = Concat(lines))

\* The formatting attributes that declare a dependency set, with the default
\* each falls back to: 'module' of an ImportFrom (deps level, module) and
\* 'content' of a Num (deps n).
DepAttrs(n) ==
  CASE n.type = "ImportFrom" ->
         {[attr |-> "module", deps |-> {"level", "module"},
           default |-> Dots(n.level) \o n.module]}
    [] n.type = "Num" -> {[attr |-> "content", deps |-> {"n"}, default |-> Repr(n.n)]}
    [] OTHER -> {}

\* A text was recorded and every dependency still has its shadow value.
StillValid(n, d) ==
  /\ fmt_get(n, d.attr).has
  /\ \A dep \in d.deps : fmt_get(n, DepKey(dep)).has /\ n[dep] = fmt_get(n, DepKey(dep)).v

\* The dump added text for attribute attr of the node uid.
Emitted(uid, attr, text) ==
  \E j \in 1..Len(out.log) : out.log[j] = [uid |-> uid, attr |-> attr, text |-> text]

\* C2: during dump, an attribute that declares dependencies is emitted as
\* stored exactly when a text was recorded and every dependency equals its
\* shadow value, and as the default otherwise.  As stated; nothing is emitted.
C2_DependencyValidity ==
  phase = "dumped" =>
    \A n \in Nodes(tree) : \A d \in DepAttrs(n) :
      Emitted(n.uid, d.attr, IF StillValid(n, d) THEN fmt_get(n, d.attr).v ELSE d.default)

\* C3: after one edit to the statement list (a statement inserted or
\* appended un-annotated, or removed with remove_child), dump gives every
\* untouched statement its captured text, in order, and the new statement its
\* default text.  As stated; the printer raises NameError instead.
C3_LocalizedEdit ==
  (phase = "dumped" /\ edit.kind \in {"insert", "remove"}) =>
    (out.err = "" /\ out.code = Captured(tree))

\* C4: after a complete annotation pass the stack of open parentheses is
\* empty, whichever TokenGenerator served the pass.
C4_ParensEmpty == phase = "parsed" => ts.parens = <<>>

\* A complete pass by token_generator.py's open_scope and close_scope over a
\* source with at least two open parentheses.
C4_Witness ==
  /\ phase = "parsed"
  /\ impl = "token_generator"
  /\ Cardinality({j \in 1..Len(tokens) : tokens[j].src = <<"(">>}) >= 2

\* C5: a number whose n was changed after annotation is dumped as the repr of
\* the new value, and a number whose n is unchanged as its captured text.  As
\* stated; nothing is emitted.
C5_NumChange ==
  phase = "dumped" =>
    \A n \in {x \in Nodes(tree) : x.type = "Num" /\ fmt_get(x, "n__src").has} :
      IF n.n # fmt_get(n, "n__src").v
      THEN Emitted(n.uid, "content", Repr(n.n))
      ELSE Emitted(n.uid, "content", fmt_get(n, "content").v)
\* ---------------------------------------------- properties of the tree edits

FieldSet(n) == {Fields(n.type)[j] : j \in 1..Len(Fields(n.type))}

\* The list fields of b that hold the node, and the scalar fields that do.
ListHolders(b, node) == {f \in FieldSet(b) \cap ListFields : IndexOf(b[f], node) > 0}
NodeHolders(b, node) == {f \in FieldSet(b) \cap NodeFields : b[f].uid = node.uid}

\* C6: remove_child removes the child from the list field that holds it and
\* changes nothing else; when no list field holds it, it raises
\* InvalidAstError and changes nothing.
C6_RemoveChild ==
  edit.kind = "remove_child" =>
    IF ListHolders(edit.before, edit.node) # {}
    THEN /\ edit.err = ""
         /\ \E f \in ListHolders(edit.before, edit.node) :
              tree = [edit.before EXCEPT ![f] = RemoveAt(@, IndexOf(@, edit.node))]
    ELSE edit.err = "InvalidAstError" /\ tree = edit.before

\* remove_child took the first of the two nodes of the orelse of an If whose
\* body is not empty.
C6_Witness ==
  /\ edit.kind = "remove_child"
  /\ edit.err = ""
  /\ edit.before.type = "If"
  /\ Len(edit.before.body) >= 1
  /\ Len(edit.before.orelse) = 2
  /\ IndexOf(edit.before.orelse, edit.node) = 1

\* C7: replace_child, for any direct child, puts the replacement at the
\* child's position, changes nothing else of the parent, and gives the
\* replacement the child's prefix and suffix.  As stated; a list field that
\* comes before the child's field ends the call with ValueError.
C7_ReplaceChild ==
  (/\ edit.kind = "replace_child"
   /\ ListHolders(edit.before, edit.node) \cup NodeHolders(edit.before, edit.node) # {}) =>
    /\ edit.err = ""
    /\ \/ \E f \in NodeHolders(edit.before, edit.node) :
            tree = [edit.before EXCEPT ![f] = edit.new]
       \/ \E f \in ListHolders(edit.before, edit.node) :
            tree = [edit.before EXCEPT ![f][IndexOf(edit.before[f], edit.node)] = edit.new]
    /\ "a" \in DOMAIN edit.node =>
         /\ prop(edit.new, "prefix") = prop(edit.node, "prefix")
         /\ prop(edit.new, "suffix") = prop(edit.node, "suffix")

\* C8: replace_child for a node that is no direct child raises
\* InvalidAstError and leaves the parent as it was.  As stated; the call ends
\* with ValueError or NameError.
C8_ReplaceStranger ==
  (/\ edit.kind = "replace_child"
   /\ ListHolders(edit.before, edit.node) \cup NodeHolders(edit.before, edit.node) = {}) =>
    (edit.err = "InvalidAstError" /\ tree = edit.before)

\* ------------------------------------------ properties of the token stream

\* The token after the cursor st, None at the end of input
TokenAfter(st) == IF st.i + 1 >= 0 /\ st.i + 1 < Len(tokens) THEN tokens[st.i + 2] ELSE NoneTok

\* C9: peek returns the token after the cursor, None on or past the last
\* token, never raises, and moves neither index nor location.  As stated;
\* annotate.py's peek raises IndexError on the last token.
C9_Peek ==
  edit.kind = "peek" =>
    (edit.err = "" /\ edit.tok = TokenAfter(edit.before) /\ ts = edit.before)

\* C10: next(advance=False) returns the token after the cursor, moves the
\* index by one and leaves the location; rewind(n) moves the index back by n
\* and leaves the location; so rewind(n) after a run of n calls of
\* next(advance=False) restores index and location.
C10_LookAhead ==
  /\ (edit.kind = "next" /\ ~edit.advance) =>
       /\ edit.tok = TokenAfter(edit.before)
       /\ ts.i = edit.before.i + 1
       /\ ts.loc = edit.before.loc
  /\ edit.kind = "rewind" => (ts.i = edit.before.i - edit.n /\ ts.loc = edit.before.loc)
  /\ (edit.kind = "rewind" /\ edit.n = edit.looked) =>
       (ts.i = edit.mark.i /\ ts.loc = edit.mark.loc)

\* token_generator.py's rewind(2) after two calls of next(advance=False) that
\* followed a next(): the location is not the initial one.
C10_Witness ==
  /\ impl = "token_generator"
  /\ edit.kind = "rewind"
  /\ edit.n = 2
  /\ edit.looked = 2
  /\ edit.mark.i >= 0

\* ------------------------------------------- whitespace() on its own
\* tokens is the stream and ts its cursor, as the annotator leaves them
\* between two tokens: everything before ts.loc has been parsed.  edit is the
\* call made: the cursor before it, the arguments, the text returned and the
\* exception raised.

\* Sources with an indented block, written as lexemes: comments after a
\* statement, on a line of their own inside and after the block, an empty
\* line, and a comment inside parentheses.
BlockLex ==
  LET if_a == <<Lex("NAME", <<"i", "f">>)>> \o WS(1) \o <<Lex("NAME", <<"a">>), Lex("OP", <<":">>),
                 Lex("NEWLINE", <<NL>>), Lex("INDENT", Spaces(2)), Lex("NAME", <<"b">>)>>
      a_nl == <<Lex("DEDENT", <<>>), Lex("NAME", <<"a">>), Lex("NEWLINE", <<NL>>)>>
      c == Lex("COMMENT", <<"#", "c">>)
  IN  { if_a \o <<Lex("NEWLINE", <<NL>>)>> \o a_nl,
        if_a \o WS(1) \o <<c, Lex("NEWLINE", <<NL>>), c, Lex("NL", <<NL>>), Lex("NL", <<NL>>)>>
             \o a_nl,
        if_a \o <<Lex("NEWLINE", <<NL>>)>> \o WS(2) \o <<c, Lex("NL", <<NL>>)>> \o a_nl,
        <<Lex("OP", <<"(">>), Lex("NAME", <<"a">>)>> \o WS(1)
             \o <<c, Lex("NL", <<NL>>), Lex("OP", <<")">>), Lex("NEWLINE", <<NL>>)>> }

\* The streams whitespace() runs on
WsSources ==
  {[lines |-> x.lines, tokens |-> x.tokens] : x \in {y \in Sources : Len(y.tokens) <= MaxStream}}
  \cup {[lines |-> SplitLines(SourceText(lx), <<>>), tokens |-> Tokenize(lx)] : lx \in BlockLex}

NoWs == [kind |-> "none", before |-> NewStream, max_lines |-> NoLimit, comment |-> FALSE,
         text |-> <<>>, err |-> ""]

WsInit ==
  /\ \E s \in WsSources : lines = s.lines /\ tokens = s.tokens
  /\ \E h \in {0, 1} : ts = [NewStream EXCEPT !.hints = h]
  /\ edit = NoWs
  /\ phase = "ws"
  /\ tree = <<>> /\ impl = "token_generator" /\ ws_comment = FALSE /\ out = NewPrinter

\* next(): the annotator consumes the token after the cursor
Advance ==
  /\ phase = "ws"
  /\ ts.err = ""
  /\ ts.i + 1 < Len(tokens)
  /\ ts' = tg_next(ts, TRUE).st
  /\ edit' = [NoWs EXCEPT !.kind = "next", !.before = ts]
  /\ UNCHANGED <<lines, tokens, tree, phase, impl, ws_comment, out>>

\* whitespace(max_lines, comment), with a token still ahead
Whitespace ==
  /\ phase = "ws"
  /\ ts.err = ""
  /\ ts.i + 1 < Len(tokens)
  /\ \E max_lines \in {NoLimit, 0, 1} : \E comment \in BOOLEAN :
       LET Called(r) ==
             /\ ts' = r.st
             /\ edit' = [kind |-> "whitespace", before |-> ts, max_lines |-> max_lines,
                         comment |-> comment, text |-> r.text, err |-> r.st.err]
       IN  Called(tg_whitespace(ts, max_lines, comment))
  /\ UNCHANGED <<lines, tokens, tree, phase, impl, ws_comment, out>>

WsNext == Advance \/ Whitespace

WsSpec == WsInit /\ [][WsNext]_vars

\* ----------------------------------------------- properties of whitespace()

\* The number of characters before a location, and the source text between
\* two locations.
Offset(loc) ==
  Len(Concat(SubSeq(lines, 1, Min2(loc[1] - 1, Len(lines))))) + loc[2]
Between(p, q) == Slice(Concat(lines), Offset(p), Offset(q))

\* The index (from 1) of the first token after the cursor st that is not of
\* the types in skipped.
StopAt(st, skipped) ==
  CHOOSE k \in (st.i + 2)..Len(tokens) :
    /\ tokens[k].type \notin skipped
    /\ \A j \in (st.i + 2)..(k - 1) : tokens[j].type \in skipped

\* whitespace stopped at token k of the stream: a newline there is eaten when
\* eat holds.  The text returned is the source up to where it stopped, and
\* location and cursor are there.
StoppedAt(k, eat) ==
  LET nl == eat /\ tokens[k].type \in {"NL", "NEWLINE"}
      to == IF nl THEN tokens[k].end ELSE tokens[k].start
  IN  /\ edit.err = ""
      /\ edit.text = Between(edit.before.loc, to)
      /\ Offset(ts.loc) = Offset(to)
      /\ ts.i = (IF nl THEN k - 1 ELSE k - 2)
      /\ ts = [edit.before EXCEPT !.i = ts.i, !.loc = ts.loc]

\* C11: whitespace() returns exactly the source between the location and the
\* next significant token, consuming indent, dedent and comment tokens, and
\* newline tokens unless limited to one line; with max_lines = 0 no newline is
\* consumed, with max_lines = 1 at most one, its character included; the
\* location ends at the end of the text returned.  As stated; a comment is
\* not consumed when comment is False outside brackets.
C11_Whitespace ==
  edit.kind = "whitespace" =>
    StoppedAt(StopAt(edit.before,
                     {"INDENT", "DEDENT", "COMMENT"}
                       \cup (IF edit.max_lines = NoLimit THEN {"NL", "NEWLINE"} ELSE {})),
              edit.max_lines = 1)

\* C11, amended: a comment is consumed only when comment is True or the
\* stream is inside brackets (_hints > 0); when comment is False and the next
\* token is a comment, whitespace() returns '' and moves nothing.  Otherwise
\* as stated.
C11_WhitespaceAmended ==
  edit.kind = "whitespace" =>
    IF ~edit.comment /\ tokens[edit.before.i + 2].type = "COMMENT"
    THEN edit.err = "" /\ edit.text = <<>> /\ ts = edit.before
    ELSE StoppedAt(StopAt(edit.before,
                          {"INDENT", "DEDENT"}
                            \cup (IF edit.comment \/ edit.before.hints # 0
                                  THEN {"COMMENT"} ELSE {})
                            \cup (IF edit.max_lines = NoLimit THEN {"NL", "NEWLINE"} ELSE {})),
                   edit.max_lines = 1)

\* whitespace(max_lines=1, comment=True) went over a comment and ate the one
\* newline after it.
C11_Witness ==
  /\ edit.kind = "whitespace"
  /\ edit.max_lines = 1
  /\ edit.comment
  /\ tokens[edit.before.i + 2].type = "COMMENT"
  /\ ts.i = edit.before.i + 2
  /\ edit.text # <<>>

\* ------------------------------- the annotator on a tree and a source text
\* AstAnnotator(source).visit(tree) takes the tree and the text apart: the
\* tree may come from another text than the one the tokens are read from.

\* The short sources, and their trees
ShortSources == {x \in Sources : Len(x.tokens) <= MaxStream + 2}

MismatchInit ==
  /\ \E s \in ShortSources : lines = s.lines /\ tokens = s.tokens
  /\ \E s \in ShortSources : tree = s.ast
  /\ ts = NewStream
  /\ phase = "source"
  /\ impl = "annotate" /\ ws_comment = FALSE
  /\ edit = NoEdit
  /\ out = NewPrinter

\* AstAnnotator(source).visit(tree) is Parse
MismatchSpec == MismatchInit /\ [][Parse]_vars

RECURSIVE IfCST(_)
\* The if statements: tail says what follows the body; next is the nested if.
IfCST(d) ==
  {[k |-> "If", tail |-> t] : t \in {"none", "else"}}
  \cup (IF d = 0 THEN {}
        ELSE {[k |-> "If", tail |-> t, next |-> x] : t \in {"elif", "elseif"}, x \in IfCST(d - 1)})

\* The list displays: n elements; comma is 0 (none after the last element),
\* 1 (',') or 2 (' , ').
ListCST == {[k |-> "List", n |-> n, comma |-> c] : n \in 0..MaxElts, c \in 0..2}

NameLex(text) == Lex("NAME", text)
OpLex(text) == Lex("OP", text)

\* A block of one statement, a, at indentation level n + 1
BodyLex(n) == <<Lex("INDENT", Spaces(2 * (n + 1))), NameLex(<<"a">>), Lex("NEWLINE", <<NL>>)>>

\* 'else' ':' NEWLINE at level n, after the dedent that ends the body
ElseLex(n, sp) ==
  WS(2 * n) \o <<Lex("DEDENT", <<>>), NameLex(<<"e", "l", "s", "e">>)>> \o WS(sp)
  \o <<OpLex(<<":">>), Lex("NEWLINE", <<NL>>)>>

RECURSIVE IfLex(_, _, _, _)
\* The lexemes of an if statement at indentation level n, from its keyword
\* kw to its last NEWLINE.  sp = 1 puts a space before each ':' and a comment
\* after the first.
IfLex(c, n, kw, sp) ==
  <<NameLex(kw)>> \o WS(1) \o <<NameLex(<<"a">>)>> \o WS(sp) \o <<OpLex(<<":">>)>>
  \o (IF sp = 1 THEN WS(1) \o <<Lex("COMMENT", <<"#", "c">>)>> ELSE <<>>)
  \o <<Lex("NEWLINE", <<NL>>)>> \o BodyLex(n)
  \o (CASE c.tail = "none" -> <<>>
         [] c.tail = "else" -> ElseLex(n, sp) \o BodyLex(n)
         [] c.tail = "elif" ->
              WS(2 * n) \o <<Lex("DEDENT", <<>>)>> \o IfLex(c.next, n, <<"e", "l", "i", "f">>, sp)
         [] c.tail = "elseif" ->
              ElseLex(n, sp) \o <<Lex("INDENT", Spaces(2 * (n + 1)))>>
              \o IfLex(c.next, n + 1, <<"i", "f">>, sp))

RECURSIVE OpenAtEnd(_, _)
\* The indentation level after the last line of an if statement at level n
OpenAtEnd(c, n) ==
  CASE c.tail \in {"none", "else"} -> n + 1
    [] c.tail = "elif" -> OpenAtEnd(c.next, n)
    [] c.tail = "elseif" -> OpenAtEnd(c.next, n + 1)

\* The lexemes of a list display statement
ListLex(c) ==
  <<OpLex(<<"[">>)>>
  \o (IF c.n = 0 THEN <<>>
      ELSE Concat([j \in 1..(c.n - 1) |-> <<NameLex(<<"a">>), OpLex(<<",">>)>> \o WS(1)])
           \o <<NameLex(<<"a">>)>>
           \o (CASE c.comma = 0 -> <<>>
                  [] c.comma = 1 -> <<OpLex(<<",">>)>>
                  [] c.comma = 2 -> WS(1) \o <<OpLex(<<",">>)>> \o WS(1)))
  \o <<OpLex(<<"]">>), Lex("NEWLINE", <<NL>>)>>

\* The lexemes of a source of the second family
ExtLex(c, sp) ==
  IF c.k = "List" THEN ListLex(c)
  ELSE IfLex(c, 0, <<"i", "f">>, sp) \o [j \in 1..OpenAtEnd(c, 0) |-> Lex("DEDENT", <<>>)]

RECURSIVE IfAst(_, _)
\* ast.parse on an if statement
IfAst(c, uid) ==
  [type |-> "If", uid |-> uid,
   test |-> NameNode(uid \o <<1>>),
   body |-> <<[type |-> "Expr", uid |-> uid \o <<2>>, value |-> NameNode(uid \o <<2, 1>>)]>>,
   orelse |-> CASE c.tail = "none" -> <<>>
                [] c.tail = "else" ->
                     <<[type |-> "Expr", uid |-> uid \o <<3>>,
                        value |-> NameNode(uid \o <<3, 1>>)]>>
                [] OTHER -> <<IfAst(c.next, uid \o <<3>>)>>]

\* ast.parse on a source of the second family
ExtAst(c) ==
  [type |-> "Module", uid |-> <<>>,
   body |-> <<IF c.k = "If" THEN IfAst(c, <<1>>)
              ELSE [type |-> "Expr", uid |-> <<1>>,
                    value |-> [type |-> "List", uid |-> <<1, 1>>,
                               elts |-> [j \in 1..c.n |-> NameNode(<<1, 1, j>>)]]]>>]

\* The sources of the second family: the form c written with spacing sp
ExtSources ==
  {[lines |-> SplitLines(SourceText(ExtLex(x.c, x.sp)), <<>>),
    tokens |-> Tokenize(ExtLex(x.c, x.sp)),
    ast |-> ExtAst(x.c), cst |-> x.c] :
   x \in ({[c |-> c, sp |-> sp] : c \in IfCST(MaxElif), sp \in {0, 1}}
          \cup {[c |-> c, sp |-> 0] : c \in ListCST})}

\* ------------------------------------- the pipeline on the second family
\* The edits made between parse and dump: the is_elif tag of a nested if set
\* or cleared, an indent_diff stored on an if, a block built by hand added
\* to the module, a mandatory child taken away.

RECURSIVE setprop_at(_, _, _, _)
\* ast_utils.setprop(node, name, value) on the if statement of t whose
\* identity is uid
setprop_at(t, uid, name, value) ==
  IF t.uid = uid THEN setprop(t, name, value)
  ELSE CASE t.type = "Module" ->
              [t EXCEPT !.body = [j \in 1..Len(@) |-> setprop_at(@[j], uid, name, value)]]
         [] t.type = "If" ->
              [t EXCEPT !.body = [j \in 1..Len(@) |-> setprop_at(@[j], uid, name, value)],
                        !.orelse = [j \in 1..Len(@) |-> setprop_at(@[j], uid, name, value)]]
         [] OTHER -> t

\* The if statements of t that are the only statement of an orelse
NestedIfs(t) ==
  {n.orelse[1] : n \in {x \in Nodes(t) : x.type = "If" /\ Len(x.orelse) = 1
                                         /\ x.orelse[1].type = "If"}}

\* The indentations an edit may store
IndentDiffs == {Spaces(2), Spaces(4), <<"\t">>}

\* A block built by hand, never annotated: if z: z
NewBlock ==
  [type |-> "If", uid |-> <<0>>,
   test |-> [type |-> "Name", uid |-> <<0, 1>>, id |-> <<"z">>],
   body |-> <<[type |-> "Expr", uid |-> <<0, 2>>,
               value |-> [type |-> "Name", uid |-> <<0, 2, 1>>, id |-> <<"z">>]]>>,
   orelse |-> <<>>]

\* A child that is None
NoChild == [type |-> "None", uid |-> <<>>]

ExtInit ==
  /\ \E s \in ExtSources : lines = s.lines /\ tokens = s.tokens /\ tree = s.ast
  /\ ts = NewStream
  /\ phase = "source"
  /\ impl = "annotate"
  /\ ws_comment = FALSE
  /\ edit = NoEdit
  /\ out = NewPrinter

\* ast_utils.setprop(node, 'is_elif', v) on a nested if of the parsed tree,
\* v the opposite of what the annotation left
SetElif ==
  /\ phase = "parsed"
  /\ \E n \in NestedIfs(tree) :
       /\ tree' = setprop_at(tree, n.uid, "is_elif",
                             IF Truthy(n, "is_elif") THEN <<>> ELSE <<TRUE>>)
       /\ edit' = [kind |-> "elif", uid |-> n.uid]
  /\ phase' = "edited"
  /\ UNCHANGED <<lines, tokens, ts, impl, ws_comment, out>>

\* ast_utils.setprop(node, 'indent_diff', d) on an if of the parsed tree that
\* stores none yet
SetIndent ==
  /\ phase = "parsed"
  /\ \E n \in {x \in Nodes(tree) : x.type = "If" /\ ~fmt_has(x, "indent_diff")} :
     \E d \in IndentDiffs :
       tree' = setprop_at(tree, n.uid, "indent_diff", d)
  /\ UNCHANGED <<lines, tokens, ts, phase, impl, ws_comment, edit, out>>

\* tree.body.append(block), the block built by hand
AddBlock ==
  /\ phase = "parsed"
  /\ tree' = [tree EXCEPT !.body = Append(@, NewBlock)]
  /\ edit' = [kind |-> "block", uid |-> NewBlock.uid]
  /\ phase' = "edited"
  /\ UNCHANGED <<lines, tokens, ts, impl, ws_comment, out>>

\* node.test = None, on the first statement of the parsed tree when it is an
\* if
DropTest ==
  /\ phase = "parsed"
  /\ tree.body[1].type = "If"
  /\ tree' = [tree EXCEPT !.body[1].test = NoChild]
  /\ edit' = [kind |-> "drop", uid |-> tree.body[1].uid]
  /\ phase' = "edited"
  /\ UNCHANGED <<lines, tokens, ts, impl, ws_comment, out>>

ExtNext == Parse \/ SetElif \/ SetIndent \/ AddBlock \/ DropTest \/ Dump

ExtSpec == ExtInit /\ [][ExtNext]_vars

\* ------------------------------------------------ properties, second family

\* The form of the source being processed
SourceForm == (CHOOSE s \in ExtSources : s.lines = lines /\ s.tokens = tokens).cst

RECURSIVE TaggedAsWritten(_, _)
\* Down the chain of nested ifs of n, written as c: the nested if carries
\* is_elif exactly where the source has the keyword elif.
TaggedAsWritten(n, c) ==
  c.tail \in {"elif", "elseif"} =>
    /\ Truthy(n.orelse[1], "is_elif") <=> (c.tail = "elif")
    /\ TaggedAsWritten(n.orelse[1], c.next)

\* The ifs of the tree whose orelse is exactly one if
ElifHolders == {n \in Nodes(tree) : n.type = "If" /\ Len(n.orelse) = 1
                                    /\ n.orelse[1].type = "If"}

\* The tree is as parse left it, but for an is_elif tag set or cleared
TagEditOnly == edit.kind \in {"none", "elif"} /\ DOMAIN seen_indent_diffs(tree) = {}

\* C13: after annotation a nested if that is the whole orelse is tagged
\* is_elif exactly when the source has elif there, and dump emits elif for a
\* nested if exactly when the tag is set, else followed by if otherwise.  As
\* stated; the dump emits no keyword.
C13_ElifTag ==
  /\ phase = "parsed" /\ SourceForm.k = "If" => TaggedAsWritten(tree.body[1], SourceForm)
  /\ phase = "dumped" /\ TagEditOnly =>
       \A n \in ElifHolders :
         IF Truthy(n.orelse[1], "is_elif")
         THEN /\ Emitted(n.orelse[1].uid, "", <<"e", "l", "i", "f">>)
              /\ ~Emitted(n.uid, "", <<"e", "l", "s", "e">>)
         ELSE /\ Emitted(n.uid, "", <<"e", "l", "s", "e">>)
              /\ Emitted(n.orelse[1].uid, "", <<"i", "f">>)

\* The list display of a source of the second family that is one
TheList == tree.body[1].value

\* The text a trailing comma written as form c is recorded with
CommaText(c) == IF c.comma = 2 THEN <<",", " ">> ELSE <<",">>

\* C14: the trailing comma of a list display is recorded exactly when a ','
\* stands between the last element and the closing bracket, and dump emits
\* it, with its whitespace, exactly then.  As stated; the dump emits
\* nothing.
C14_TrailingComma ==
  SourceForm.k = "List" =>
    /\ phase = "parsed" =>
         IF SourceForm.n > 0 /\ SourceForm.comma > 0
         THEN fmt_get(TheList, "extracomma") = [has |-> TRUE, v |-> CommaText(SourceForm)]
         ELSE ~fmt_get(TheList, "extracomma").has
    /\ phase = "dumped" /\ edit.kind = "none" =>
         /\ out.err = ""
         /\ IF SourceForm.n > 0 /\ SourceForm.comma > 0
            THEN Emitted(TheList.uid, "extracomma", CommaText(SourceForm))
            ELSE \A j \in 1..Len(out.log) :
                   out.log[j].uid = TheList.uid => out.log[j].attr # "extracomma"

\* text ends with d
EndsWith(text, d) ==
  Len(text) >= Len(d) /\ SubSeq(text, Len(text) - Len(d) + 1, Len(text)) = d

\* C15: the dump of a tree to which a block built by hand was added emits
\* the statement of that block behind the indent_diff that most annotated
\* nodes store.  As stated; the dump ends before anything is emitted.
C15_DefaultIndent ==
  phase = "dumped" /\ edit.kind = "block" /\ most_seen(tree) # {} =>
    /\ out.err = ""
    /\ \E d \in most_seen(tree) : \E j \in 1..Len(out.log) :
         /\ out.log[j].uid \in {n.uid : n \in Nodes(NewBlock)}
         /\ EndsWith(out.log[j].text, d)

\* C16: a dump that ends with an exception ends with PrintError.  As
\* stated; the exceptions Printer.visit does not name leave dump as they
\* are.
C16_PrintError == phase = "dumped" => out.err \in {"", "PrintError"}

\* ------------------------------------------------- ast_utils.py: normalize
\* Here a node carries obj, the identity of the Python object: two positions
\* of a tree hold the same object exactly when their obj are equal.
\* ast.parse builds one object for each position of a statement or an
\* expression, and puts the one instance it keeps of an operator class at
\* every position of that operator.

\* _AST_OP_NODES
AST_OP_NODES ==
  {"And", "Or", "Eq", "NotEq", "Is", "IsNot", "In", "NotIn", "Lt", "LtE", "Gt", "GtE",
   "Add", "Sub", "Mult", "Div", "Mod", "Pow", "LShift", "RShift", "BitAnd", "BitOr",
   "BitXor", "FloorDiv", "Invert", "Not", "UAdd", "USub"}

\* The operators of the expressions below: +, -, @; not; <
BinOps == {"Add", "Sub", "MatMult"}
UnaryOps == {"Not"}
CmpOps == {"Lt"}

\* The object ast.parse builds at position pos, the instance it keeps of
\* operator class cls, and the object a call cls() made at position pos
\* builds
ObjAt(pos) == [kind |-> "parsed", cls |-> "", at |-> pos]
Interned(cls) == [type |-> cls, obj |-> [kind |-> "interned", cls |-> cls, at |-> <<>>]]
NewObj(pos) == [kind |-> "new", cls |-> "", at |-> pos]

RECURSIVE RawExprs(_, _)
\* ast.parse: the expressions of depth d at most, at position pos
RawExprs(d, pos) ==
  {[type |-> "Name", obj |-> ObjAt(pos)]}
  \cup (IF d = 0 THEN {}
        ELSE {[type |-> "BinOp", obj |-> ObjAt(pos), left |-> l, op |-> Interned(o),
               right |-> r] :
                l \in RawExprs(d - 1, pos \o <<1>>), o \in BinOps,
                r \in RawExprs(d - 1, pos \o <<3>>)}
             \cup {[type |-> "UnaryOp", obj |-> ObjAt(pos), op |-> Interned(o),
                    operand |-> e] :
                     o \in UnaryOps, e \in RawExprs(d - 1, pos \o <<2>>)}
             \cup {[type |-> "Compare", obj |-> ObjAt(pos),
                    left |-> [type |-> "Name", obj |-> ObjAt(pos \o <<1>>)],
                    ops |-> <<Interned(o), Interned(o)>>,
                    comparators |-> [j \in 1..2 |->
                                      [type |-> "Name", obj |-> ObjAt(pos \o <<3, j>>)]]] :
                     o \in CmpOps})

RECURSIVE TreeNormalizer_visit(_, _)
\* _TreeNormalizer.visit on the node at position pos: node.__class__() for
\* a node of _AST_OP_NODES, and NodeTransformer.generic_visit, which visits
\* the fields and stores what the visits return, for any other node
TreeNormalizer_visit(node, pos) ==
  IF node.type \in AST_OP_NODES THEN [type |-> node.type, obj |-> NewObj(pos)]
  ELSE CASE node.type = "BinOp" ->
              [node EXCEPT !.left = TreeNormalizer_visit(@, pos \o <<1>>),
                           !.op = TreeNormalizer_visit(@, pos \o <<2>>),
                           !.right = TreeNormalizer_visit(@, pos \o <<3>>)]
         [] node.type = "UnaryOp" ->
              [node EXCEPT !.op = TreeNormalizer_visit(@, pos \o <<1>>),
                           !.operand = TreeNormalizer_visit(@, pos \o <<2>>)]
         [] node.type = "Compare" ->
              [node EXCEPT !.left = TreeNormalizer_visit(@, pos \o <<1>>),
                           !.ops = [j \in 1..Len(@) |->
                                     TreeNormalizer_visit(@[j], pos \o <<2, j>>)],
                           !.comparators = [j \in 1..Len(@) |->
                                             TreeNormalizer_visit(@[j], pos \o <<3, j>>)]]
         [] OTHER -> node

\* normalize
normalize(t) == TreeNormalizer_visit(t, <<>>)

\* The depth of the expressions handed to normalize
MaxDepth == 2

NormInit ==
  /\ tree \in RawExprs(MaxDepth, <<>>)
  /\ lines = <<>>
  /\ tokens = <<>>
  /\ ts = NewStream
  /\ phase = "raw"
  /\ impl = "annotate"
  /\ ws_comment = FALSE
  /\ edit = NoEdit
  /\ out = NewPrinter

\* ast_utils.parse, after ast.parse: normalize(tree); edit keeps the tree
\* as ast.parse built it
Normalize ==
  /\ phase = "raw"
  /\ tree' = normalize(tree)
  /\ edit' = [kind |-> "normalize", before |-> tree]
  /\ phase' = "normalized"
  /\ UNCHANGED <<lines, tokens, ts, impl, ws_comment, out>>

NormSpec == NormInit /\ [][Normalize]_vars

RECURSIVE OpObjects(_, _)
\* The operator positions of t, each with the object it holds
OpObjects(t, pos) ==
  CASE t.type = "BinOp" ->
         {[pos |-> pos \o <<2>>, obj |-> t.op.obj]}
         \cup OpObjects(t.left, pos \o <<1>>) \cup OpObjects(t.right, pos \o <<3>>)
    [] t.type = "UnaryOp" ->
         {[pos |-> pos \o <<1>>, obj |-> t.op.obj]} \cup OpObjects(t.operand, pos \o <<2>>)
    [] t.type = "Compare" -> {[pos |-> pos \o <<2, j>>, obj |-> t.ops[j].obj] : j \in 1..Len(t.ops)}
    [] OTHER -> {}

RECURSIVE NoOpObjects(_)
\* t with the identity of every operator node left out
NoOpObjects(t) ==
  CASE t.type = "BinOp" ->
         [t EXCEPT !.left = NoOpObjects(@), !.op = [type |-> @.type],
                   !.right = NoOpObjects(@)]
    [] t.type = "UnaryOp" -> [t EXCEPT !.op = [type |-> @.type], !.operand = NoOpObjects(@)]
    [] t.type = "Compare" -> [t EXCEPT !.ops = [j \in 1..Len(@) |-> [type |-> @[j].type]]]
    [] OTHER -> t

\* C17: after normalize no two operator positions hold the same object, and
\* the tree is what it was but for the identity of its operator nodes.  As
\* stated; the instance of MatMult stays at every position of @.
C17_Normalize ==
  phase = "normalized" =>
    /\ \A p, q \in OpObjects(tree, <<>>) : p.pos # q.pos => p.obj # q.obj
    /\ NoOpObjects(tree) = NoOpObjects(edit.before)

\* ------------------------------------------------------ augment/rename.py
\* A dotted name is a text, 'a.b.c'.  The trees handed to rename_external
\* are modules of import statements and of reads of a dotted name.

RECURSIVE split(_, _)
\* text.split('.'), cur being the part read so far
split(text, cur) ==
  IF text = <<>> THEN <<cur>>
  ELSE IF Head(text) = "." THEN <<cur>> \o split(Tail(text), <<>>)
  ELSE split(Tail(text), Append(cur, Head(text)))

RECURSIVE join(_)
\* '.'.join(parts)
join(parts) ==
  IF parts = <<>> THEN <<>>
  ELSE IF Len(parts) = 1 THEN parts[1]
  ELSE parts[1] \o <<".">> \o join(Tail(parts))

\* ast.parse on import statements and reads
AliasNode(uid, name, asname) == [type |-> "alias", uid |-> uid, name |-> name, asname |-> asname]
ImportNode(uid, names) ==
  [type |-> "Import", uid |-> uid,
   names |-> [j \in 1..Len(names) |-> AliasNode(uid \o <<j>>, names[j].name, names[j].asname)]]
ImportFromNode(uid, module, names) ==
  [type |-> "ImportFrom", uid |-> uid, module |-> module, level |-> 0,
   names |-> [j \in 1..Len(names) |-> AliasNode(uid \o <<j>>, names[j].name, names[j].asname)]]

RECURSIVE AttributeNode(_, _)
\* the expression parts[1].parts[2]...
AttributeNode(uid, parts) ==
  IF Len(parts) = 1 THEN [type |-> "Name", uid |-> uid, id |-> parts[1]]
  ELSE [type |-> "Attribute", uid |-> uid,
        value |-> AttributeNode(uid \o <<1>>, SubSeq(parts, 1, Len(parts) - 1)),
        attr |-> parts[Len(parts)]]

\* The statements of the modules: import c.d.e [as g], import c, c.d,
\* from c[.d] import d|e|d, e, and the read c.d.e
Imported(name, asname) == [name |-> name, asname |-> asname]
ImportForms ==
  {[k |-> "Import", names |-> n] :
     n \in {<<Imported(<<"c", ".", "d", ".", "e">>, <<>>)>>,
            <<Imported(<<"c", ".", "d", ".", "e">>, <<"g">>)>>,
            <<Imported(<<"c">>, <<>>), Imported(<<"c", ".", "d">>, <<>>)>>}}
  \cup {[k |-> "ImportFrom", module |-> m, names |-> n] :
          m \in {<<"c">>, <<"c", ".", "d">>},
          n \in {<<Imported(<<"d">>, <<>>)>>, <<Imported(<<"e">>, <<>>)>>,
                 <<Imported(<<"d">>, <<>>), Imported(<<"e">>, <<>>)>>}}
  \cup {[k |-> "Read", name |-> <<"c", ".", "d", ".", "e">>]}

\* The number of statements of a module
MaxImports == 2

ImportModules ==
  {[type |-> "Module", uid |-> <<>>,
    body |-> [i \in 1..Len(m) |->
                CASE m[i].k = "Import" -> ImportNode(<<i>>, m[i].names)
                  [] m[i].k = "ImportFrom" -> ImportFromNode(<<i>>, m[i].module, m[i].names)
                  [] m[i].k = "Read" ->
                       [type |-> "Expr", uid |-> <<i>>,
                        value |-> AttributeNode(<<i, 1>>, split(m[i].name, <<>>))]]] :
   m \in UNION {[1..n -> ImportForms] : n \in 1..MaxImports}}

\* scope.analyze(t).external_references, as one list in the order of the
\* tree: an import alias under every dotted prefix of its name, a
\* from-import under every dotted prefix of its module and each of its
\* aliases under module.name.  parent is what sc.parent(node) gives.
external_references(t) ==
  LET Ref(name, node, parent) ==
        [name |-> name, node |-> node.uid, type |-> node.type,
         parent |-> parent.uid, parent_type |-> parent.type]
      Prefixes(name, node, parent) ==
        [i \in 1..Len(split(name, <<>>)) |->
           Ref(join(SubSeq(split(name, <<>>), 1, i)), node, parent)]
      OfStmt(stmt) ==
        CASE stmt.type = "Import" ->
               Concat([j \in 1..Len(stmt.names) |->
                         Prefixes(stmt.names[j].name, stmt.names[j], stmt)])
          [] stmt.type = "ImportFrom" ->
               Prefixes(stmt.module, stmt, t)
               \o [j \in 1..Len(stmt.names) |->
                     Ref(stmt.module \o <<".">> \o stmt.names[j].name, stmt.names[j], stmt)]
          [] OTHER -> <<>>
  IN  Concat([k \in 1..Len(t.body) |-> OfStmt(t.body[k])])

\* The index in body of the statement whose identity is uid
StmtIndex(body, uid) == CHOOSE k \in 1..Len(body) : body[k].uid = uid

\* A faulty variant of split_import: the new import goes before node.
split_import_before(body, k, j) ==
  LET node == body[k]
      new_import == [node EXCEPT !.uid = @ \o <<0>>, !.names = <<node.names[j]>>]
  IN  InsertAt([body EXCEPT ![k].names = RemoveAt(@, j)], k - 1, new_import)

\* import_utils.split_import(sc, node, alias_to_remove), node being body[k]
\* and the alias node.names[j]: the body with the new import after node
split_import(body, k, j) ==
  LET node == body[k]
      new_import == [node EXCEPT !.uid = @ \o <<0>>, !.names = <<node.names[j]>>]
  IN  InsertAt([body EXCEPT ![k].names = RemoveAt(@, j)], k, new_import)

\* _rename_name_in_importfrom on the from-import uid: [body, ok]
rename_name_in_importfrom(body, uid, old_name, new_name) ==
  LET k == StmtIndex(body, uid)
      node == body[k]
      module_parts == split(node.module, <<>>)
      old_parts == split(old_name, <<>>)
      new_parts == split(new_name, <<>>)
      package == join(Slice(new_parts, 0, Len(new_parts) - 1))
      found == {j \in 1..Len(node.names) : node.names[j].name = old_parts[Len(old_parts)]}
      Changed(j) ==
        LET named == [body EXCEPT ![k].names[j].name = new_parts[Len(new_parts)]]
        IN  IF module_parts # Slice(new_parts, 0, Len(new_parts) - 1)
            THEN IF Len(node.names) > 1
                 THEN [split_import(named, k, j) EXCEPT ![k + 1].module = package]
                 ELSE [named EXCEPT ![k].module = package]
            ELSE named
  IN  IF old_name = new_name THEN [body |-> body, ok |-> FALSE]
      ELSE IF Slice(module_parts, 0, Len(old_parts)) = old_parts
      THEN [body |-> [body EXCEPT ![k].module =
                        join(new_parts \o SliceFrom(module_parts, Len(old_parts)))],
            ok |-> TRUE]
      ELSE IF found = {} THEN [body |-> body, ok |-> FALSE]
      ELSE [body |-> Changed(CHOOSE j \in found : \A i \in found : j <= i), ok |-> TRUE]

\* rename_external: assert _rename_name_in_importfrom(...) on a from-import
\* not changed yet.  A build without assert statements (python -O) leaves
\* out the statement and with it the call.
rename_importfrom(st, uid, old_name, new_name) ==
  LET Asserted(r) ==
        IF r.ok THEN [st EXCEPT !.body = r.body, !.already_changed = Append(@, uid)]
        ELSE [st EXCEPT !.err = "AssertionError"]
  IN  IF InSeq(uid, st.already_changed) THEN st
      ELSE IF impl = "python -O" THEN [st EXCEPT !.already_changed = Append(@, uid)]
      ELSE Asserted(rename_name_in_importfrom(st.body, uid, old_name, new_name))

\* rename_external: node.name = new_name + node.name[len(old_name):] on
\* the alias uid
rename_alias(body, uid, old_name, new_name) ==
  [k \in 1..Len(body) |->
     IF body[k].type \notin {"Import", "ImportFrom"} THEN body[k]
     ELSE [body[k] EXCEPT !.names =
             [j \in 1..Len(@) |->
                IF @[j].uid # uid THEN @[j]
                ELSE [@[j] EXCEPT !.name = new_name \o SliceFrom(@, Len(old_name))]]]]

RECURSIVE rename_loop(_, _, _, _)
\* rename_external: the loop over sc.external_references[old_name];
\* st = [body, already_changed, err]
rename_loop(refs, st, old_name, new_name) ==
  IF refs = <<>> \/ st.err # "" THEN st
  ELSE LET node == Head(refs)
       IN  rename_loop(
             Tail(refs),
             CASE node.type = "alias" /\ node.parent_type = "ImportFrom" ->
                    rename_importfrom(st, node.parent, old_name, new_name)
               [] node.type = "alias" /\ node.parent_type = "Import" ->
                    [st EXCEPT !.body = rename_alias(@, node.node, old_name, new_name)]
               [] node.type = "ImportFrom" ->
                    rename_importfrom(st, node.node, old_name, new_name)
               [] OTHER -> st,
             old_name, new_name)

\* rename_external: [tree, result], result the value returned ("True",
\* "False") or the exception raised
rename_external(t, old_name, new_name) ==
  LET Named(r) == r.name = old_name
      Done(st) == [tree |-> [t EXCEPT !.body = st.body],
                   result |-> IF st.err # "" THEN st.err ELSE "True"]
      Loop(refs) ==
        IF refs = <<>> THEN [tree |-> t, result |-> "False"]
        ELSE Done(rename_loop(refs, [body |-> t.body, already_changed |-> <<>>, err |-> ""],
                              old_name, new_name))
  IN  Loop(SelectSeq(external_references(t), Named))

\* The names handed to rename_external
OldNames == {<<"c">>, <<"c", ".", "d">>, <<"c", ".", "d", ".", "e">>, <<"d">>}
NewNames == {<<"x">>, <<"x", ".", "y">>, <<"c", ".", "d">>, <<"c", ".", "z">>}

RenameInit ==
  /\ tree \in ImportModules
  /\ lines = <<>>
  /\ tokens = <<>>
  /\ ts = NewStream
  /\ phase = "built"
  /\ impl \in {"python", "python -O"}
  /\ ws_comment = FALSE
  /\ edit = NoEdit
  /\ out = NewPrinter

\* rename_external(tree, old_name, new_name); edit keeps the call, the tree
\* before it and what it returned or raised
RenameExternal ==
  /\ phase = "built"
  /\ \E old_name \in OldNames, new_name \in NewNames :
       LET Called(r) ==
             /\ tree' = r.tree
             /\ edit' = [kind |-> "rename", before |-> tree, old_name |-> old_name,
                         new_name |-> new_name, result |-> r.result]
       IN  Called(rename_external(tree, old_name, new_name))
  /\ phase' = "renamed"
  /\ UNCHANGED <<lines, tokens, ts, impl, ws_comment, out>>

RenameSpec == RenameInit /\ [][RenameExternal]_vars

\* ------------------------------------------------------ properties, rename

\* C18: a call of rename_external that returns gives False exactly when the
\* tree is what it was, True exactly when it is not.  As stated; a call with
\* a name among the external references returns True whatever it changed.
C18_RenameResult ==
  phase = "renamed" /\ edit.result \in {"True", "False"} =>
    /\ edit.result = "False" <=> tree = edit.before
    /\ edit.result = "True" <=> tree # edit.before

\* C19: rename_external raises nothing, and a call whose old and new name
\* are equal leaves the tree as it was.  As stated; the assert on a
\* from-import that was not renamed raises AssertionError.
C19_RenameNoRaise ==
  phase = "renamed" =>
    /\ edit.result \in {"True", "False"}
    /\ edit.old_name = edit.new_name => tree = edit.before

\* name is old_name or goes on with '.' after it
StartsWith(name, old_name) ==
  \/ name = old_name
  \/ Len(name) > Len(old_name) /\ SubSeq(name, 1, Len(old_name) + 1) = old_name \o <<".">>

\* name with its prefix old_name replaced by new_name, when it has it
Renamed(name, old_name, new_name) ==
  IF StartsWith(name, old_name) THEN new_name \o SliceFrom(name, Len(old_name)) ELSE name

RECURSIVE DottedName(_)
\* The dotted name a Name or Attribute expression reads
DottedName(n) ==
  IF n.type = "Name" THEN n.id ELSE DottedName(n.value) \o <<".">> \o n.attr

\* The aliases of the import statements of t, and its reads
ImportAliases(t) ==
  UNION {{t.body[k].names[j] : j \in 1..Len(t.body[k].names)} :
           k \in {i \in 1..Len(t.body) : t.body[i].type = "Import"}}
Reads(t) == {t.body[k] : k \in {i \in 1..Len(t.body) : t.body[i].type = "Expr"}}

\* C20: after a rename that returned True every alias of an import statement
\* and every read has its name with the prefix old replaced by new, asnames
\* kept, and a name without that prefix is what it was.  As stated; no read
\* is rewritten.
C20_RenameConsistent ==
  phase = "renamed" /\ edit.result = "True" =>
    /\ \A a \in ImportAliases(edit.before) : \E b \in ImportAliases(tree) :
         /\ b.uid = a.uid
         /\ b.asname = a.asname
         /\ b.name = Renamed(a.name, edit.old_name, edit.new_name)
    /\ \A r \in Reads(edit.before) : \E q \in Reads(tree) :
         /\ q.uid = r.uid
         /\ DottedName(q.value)
              = Renamed(DottedName(r.value), edit.old_name, edit.new_name)

\* ------------------------------------------------------ split_import

\* The number of aliases of an import statement
MaxAliases == 3

\* The aliases an import statement is written with; one may come twice
AliasPool ==
  {Imported(<<"c">>, <<"g">>), Imported(<<"d">>, <<>>), Imported(<<"e">>, <<"h">>)}
AliasLists == UNION {[1..l -> AliasPool] : l \in 1..MaxAliases}

PassNode(uid) == [type |-> "Pass", uid |-> uid]

\* The statement lists split_import looks through, in its order
PARENT_LISTS == <<"body", "orelse", "finalbody">>

\* A block statement or module whose list number f is list; a list that is
\* not the one looked at holds pass
Block(type, f, list) ==
  LET L(g) == IF g = f THEN list ELSE <<PassNode(<<g, 1>>)>>
  IN  CASE type = "Module" -> [type |-> type, uid |-> <<>>, body |-> L(1)]
        [] type = "If" -> [type |-> type, uid |-> <<>>, body |-> L(1), orelse |-> L(2)]
        [] type = "Try" -> [type |-> type, uid |-> <<>>, body |-> L(1), orelse |-> L(2),
                            finalbody |-> L(3)]

\* The import of list f at index k, as import or from-import
ImportStmts(f, k) ==
  {ImportNode(<<f, k>>, n) : n \in AliasLists}
  \cup {ImportFromNode(<<f, k>>, <<"m">>, n) : n \in AliasLists}

\* The parents of an import: the import alone in its list, after a
\* statement, before one, and between two
SplitParents ==
  UNION {
    {Block(b.type, b.f, <<i>>) : i \in ImportStmts(b.f, 1)}
    \cup {Block(b.type, b.f, <<PassNode(<<b.f, 1>>), i>>) : i \in ImportStmts(b.f, 2)}
    \cup {Block(b.type, b.f, <<i, PassNode(<<b.f, 2>>)>>) : i \in ImportStmts(b.f, 1)}
    \cup {Block(b.type, b.f, <<PassNode(<<b.f, 1>>), i, PassNode(<<b.f, 3>>)>>) :
            i \in ImportStmts(b.f, 2)} :
    b \in {[type |-> "Module", f |-> 1], [type |-> "If", f |-> 1], [type |-> "If", f |-> 2],
           [type |-> "Try", f |-> 1], [type |-> "Try", f |-> 2], [type |-> "Try", f |-> 3]}}

RECURSIVE find_parent_list(_, _, _)
\* split_import, the loop over the attributes: the first one the parent has
\* whose list holds node, "" when the loop ends without one
find_parent_list(parent, node, attrs) ==
  IF attrs = <<>> THEN ""
  ELSE IF Head(attrs) \in DOMAIN parent /\ IndexOf(parent[Head(attrs)], node) > 0
       THEN Head(attrs)
       ELSE find_parent_list(parent, node, Tail(attrs))

\* split_import(sc, node, alias_to_remove) with sc.parent(node) = parent:
\* [tree, err]
split_import_of(parent, node, alias_to_remove) ==
  LET a == find_parent_list(parent, node, PARENT_LISTS)
  IN  IF a = "" THEN [tree |-> parent, err |-> "InvalidAstError"]
      ELSE IF IndexOf(node.names, alias_to_remove) = 0
           THEN [tree |-> parent, err |-> "ValueError"]
           ELSE [tree |-> [parent EXCEPT ![a] =
                             split_import(@, IndexOf(@, node),
                                          IndexOf(node.names, alias_to_remove))],
                 err |-> ""]

SplitInit ==
  /\ tree \in SplitParents
  /\ lines = <<>>
  /\ tokens = <<>>
  /\ ts = NewStream
  /\ phase = "built"
  /\ impl = "python"
  /\ ws_comment = FALSE
  /\ edit = NoEdit
  /\ out = NewPrinter

\* split_import on an import of the tree and one of its aliases; edit keeps
\* the call and the tree before it
SplitImport ==
  /\ phase = "built"
  /\ \E a \in DOMAIN tree \cap {"body", "orelse", "finalbody"} :
       \E k \in 1..Len(tree[a]) :
         /\ tree[a][k].type \in {"Import", "ImportFrom"}
         /\ \E j \in 1..Len(tree[a][k].names) :
              LET Called(r) ==
                    /\ tree' = r.tree
                    /\ edit' = [kind |-> "split", before |-> tree, attr |-> a,
                                idx |-> k, alias |-> j, err |-> r.err]
              IN  Called(split_import_of(tree, tree[a][k], tree[a][k].names[j]))
  /\ phase' = "split"
  /\ UNCHANGED <<lines, tokens, ts, impl, ws_comment, out>>

SplitSpec == SplitInit /\ [][SplitImport]_vars

\* ------------------------------------------------------ properties, split_import

\* C21: split_import turns the import into two adjacent statements of the
\* list that held it: the import with its other aliases in their order, then
\* a new import of the same kind and module whose only alias is the one
\* split out, asname kept; every other statement of the list and every other
\* list of the parent is what it was.
C21_SplitImport ==
  phase = "split" =>
    LET before == edit.before[edit.attr]
        after == tree[edit.attr]
        k == edit.idx
        node == before[k]
    IN  /\ edit.err = ""
        /\ Len(after) = Len(before) + 1
        /\ after[k] = [node EXCEPT !.names = RemoveAt(@, edit.alias)]
        /\ after[k + 1].type = node.type
        /\ node.type = "ImportFrom" =>
             /\ after[k + 1].module = node.module
             /\ after[k + 1].level = node.level
        /\ after[k + 1].names = <<node.names[edit.alias]>>
        /\ \A i \in 1..(k - 1) : after[i] = before[i]
        /\ \A i \in (k + 1)..Len(before) : after[i + 1] = before[i]
        /\ \A a \in DOMAIN tree \ {edit.attr} : tree[a] = edit.before[a]
        /\ DOMAIN tree = DOMAIN edit.before

\* C21 happens: the middle one of three aliases of an import between two
\* statements of an else or finally list is split out
C21_Witness ==
  /\ phase = "split"
  /\ edit.attr \in {"orelse", "finalbody"}
  /\ edit.idx = 2
  /\ Len(edit.before[edit.attr]) = 3
  /\ Len(edit.before[edit.attr][2].names) = 3
  /\ edit.alias = 2
  /\ Len(tree[edit.attr]) = 4

\* ------------------------------------------------------ get_unused_import_aliases

\* The number of statements of a module handed to get_unused_import_aliases
MaxUnused == 3

\* def foo(): followed by the statements body
FunctionDefNode(uid, body) == [type |-> "FunctionDef", uid |-> uid, body |-> body]

\* The statements of the modules: import a [as c], import a, b, from m
\* import a, b, from m import b as c, the reads a.foo, b.foo and c.foo, and
\* def foo(): import b
UnusedForms ==
  {[k |-> "Import", names |-> n] :
     n \in {<<Imported(<<"a">>, <<>>)>>, <<Imported(<<"a">>, <<"c">>)>>,
            <<Imported(<<"a">>, <<>>), Imported(<<"b">>, <<>>)>>}}
  \cup {[k |-> "ImportFrom", names |-> n] :
          n \in {<<Imported(<<"a">>, <<>>), Imported(<<"b">>, <<>>)>>,
                 <<Imported(<<"b">>, <<"c">>)>>}}
  \cup {[k |-> "Read", name |-> n] : n \in {<<"a">>, <<"b">>, <<"c">>}}
  \cup {[k |-> "Def"]}

UnusedModules ==
  {[type |-> "Module", uid |-> <<>>,
    body |-> [i \in 1..Len(m) |->
                CASE m[i].k = "Import" -> ImportNode(<<i>>, m[i].names)
                  [] m[i].k = "ImportFrom" -> ImportFromNode(<<i>>, <<"m">>, m[i].names)
                  [] m[i].k = "Read" ->
                       [type |-> "Expr", uid |-> <<i>>,
                        value |-> AttributeNode(<<i, 1>>, <<m[i].name, <<"f", "o", "o">>>>)]
                  [] m[i].k = "Def" ->
                       FunctionDefNode(<<i>>,
                         <<ImportNode(<<i, 1>>, <<Imported(<<"b">>, <<>>)>>)>>)]] :
   m \in UNION {[1..n -> UnusedForms] : n \in 1..MaxUnused}}

\* The name an alias binds
BoundName(al) == IF al.asname # <<>> THEN al.asname ELSE al.name

RECURSIVE RootId(_)
\* The name at the root of a Name or Attribute expression
RootId(n) == IF n.type = "Name" THEN n.id ELSE RootId(n.value)

\* The definition of a name nothing of the tree binds
None == <<-1>>

\* scope.analyze(tree).names: the names of the scope of the module, each with
\* the node that binds it and the nodes that read it.  A name bound in the body of a function is a name
\* of the function's scope and not one of these.
scope_names(t) ==
  LET stmts == {t.body[k] : k \in 1..Len(t.body)}
      imports == {s \in stmts : s.type \in {"Import", "ImportFrom"}}
      exprs == {s \in stmts : s.type = "Expr"}
      assigns == {s \in stmts : s.type = "Assign"}
      bound == UNION {{BoundName(s.names[j]) : j \in 1..Len(s.names)} : s \in imports}
      assigned == {s.targets[1].id : s \in assigns}
      read == {RootId(s.value) : s \in exprs}
      aliases == UNION {{s.names[j] : j \in 1..Len(s.names)} : s \in imports}
  IN  [n \in bound \cup assigned \cup read |->
         [id |-> n,
          definition |-> IF n \in bound
                         THEN (CHOOSE al \in aliases : BoundName(al) = n).uid
                         ELSE IF n \in assigned
                         THEN (CHOOSE s \in assigns : s.targets[1].id = n).targets[1].uid
                         ELSE None,
          reads |-> {s.value.uid : s \in {e \in exprs : RootId(e.value) = n}}]]

\* ast.walk(tree), the alias nodes of it
walk_aliases(t) ==
  LET stmts == {t.body[k] : k \in 1..Len(t.body)}
      inner == UNION {{s.body[k] : k \in 1..Len(s.body)} :
                        s \in {d \in stmts : d.type = "FunctionDef"}}
      imports == {s \in stmts \cup inner : s.type \in {"Import", "ImportFrom"}}
  IN  UNION {{s.names[j] : j \in 1..Len(s.names)} : s \in imports}

\* get_unused_import_aliases(tree): [result, err], the result as the set of
\* the aliases' identities
get_unused_import_aliases(t) ==
  LET Over(names) ==
        IF \E al \in walk_aliases(t) : BoundName(al) \notin DOMAIN names
        THEN [result |-> {}, err |-> "KeyError"]
        ELSE [result |-> {al.uid : al \in {x \in walk_aliases(t) :
                                             names[BoundName(x)].reads = {}}},
              err |-> ""]
  IN  Over(scope_names(t))

UnusedInit ==
  /\ tree \in UnusedModules
  /\ lines = <<>>
  /\ tokens = <<>>
  /\ ts = NewStream
  /\ phase = "built"
  /\ impl = "python"
  /\ ws_comment = FALSE
  /\ edit = NoEdit
  /\ out = NewPrinter

\* get_unused_import_aliases(tree); edit keeps what it returned or raised
GetUnused ==
  /\ phase = "built"
  /\ LET Called(r) == edit' = [kind |-> "unused", result |-> r.result, err |-> r.err]
     IN  Called(get_unused_import_aliases(tree))
  /\ phase' = "called"
  /\ UNCHANGED <<lines, tokens, tree, ts, impl, ws_comment, out>>

UnusedSpec == UnusedInit /\ [][GetUnused]_vars

\* ------------------------------------------------------ properties, unused imports

\* The expressions of the statements of t, the reads of the tree
ReadSites(t) == {t.body[k].value : k \in {i \in 1..Len(t.body) : t.body[i].type = "Expr"}}

\* C22: get_unused_import_aliases returns the import aliases of the tree whose
\* bound name (asname, else name) no expression of the tree reads, and no
\* other node.  As stated; an import in the body of a function makes the
\* call raise KeyError.
C22_UnusedAliases ==
  phase = "called" =>
    /\ edit.err = ""
    /\ edit.result = {al.uid : al \in {x \in walk_aliases(tree) :
                                         \A r \in ReadSites(tree) : RootId(r) # BoundName(x)}}

\* ------------------------------------------------------ insert_node

\* The number of statements of a module a node is inserted into
MaxBody == 2

\* x = True
AssignNode(uid) ==
  [type |-> "Assign", uid |-> uid, targets |-> <<[type |-> "Name", uid |-> uid \o <<1>>, id |-> <<"x">>]>>,
   value |-> [type |-> "Name", uid |-> uid \o <<2>>, id |-> <<"T", "r", "u", "e">>]]

\* The modules a node is inserted into: statements x = True, from src
\* import x and import y
InsertModules ==
  {[type |-> "Module", uid |-> <<>>,
    body |-> [i \in 1..Len(m) |->
                CASE m[i] = "Assign" -> AssignNode(<<i>>)
                  [] m[i] = "ImportFrom" ->
                       ImportFromNode(<<i>>, <<"s", "r", "c">>, <<Imported(<<"x">>, <<>>)>>)
                  [] m[i] = "Import" -> ImportNode(<<i>>, <<Imported(<<"y">>, <<>>)>>)]] :
   m \in UNION {[1..n -> {"Assign", "ImportFrom", "Import"}] : n \in 0..MaxBody}}

\* The nodes inserted: the statements x.foo, y.foo and z, and pass
InsertedNodes ==
  {[type |-> "Expr", uid |-> <<9>>, value |-> AttributeNode(<<9, 1>>, <<n, <<"f", "o", "o">>>>)] :
     n \in {<<"x">>, <<"y">>}}
  \cup {[type |-> "Expr", uid |-> <<9>>, value |-> AttributeNode(<<9, 1>>, <<<<"z">>>>)],
        PassNode(<<9>>)}

\* The names of the references handed to insert_node; the name n stands for
\* src.n
ReferenceSets == SUBSET {<<"x">>, <<"y">>}

\* insert_node(tree, node, references): [tree, err].  import_utils has no
\* add_import, so the call of it for a name without definition that is among
\* the references raises AttributeError; without such a name the node is
\* appended to the body.
insert_node(t, node, references) ==
  LET In(names) ==
        IF \E n \in DOMAIN names : names[n].definition = None /\ names[n].id \in references
        THEN [tree |-> t, err |-> "AttributeError"]
        ELSE [tree |-> [t EXCEPT !.body = Append(@, node)], err |-> ""]
  IN  In(scope_names([type |-> "Module", uid |-> <<>>, body |-> <<node>>]))

InsertInit ==
  /\ tree \in InsertModules
  /\ lines = <<>>
  /\ tokens = <<>>
  /\ ts = NewStream
  /\ phase = "built"
  /\ impl = "python"
  /\ ws_comment = FALSE
  /\ edit = NoEdit
  /\ out = NewPrinter

\* insert_node(tree, node, references); edit keeps the call and the tree
\* before it
InsertNode ==
  /\ phase = "built"
  /\ \E node \in InsertedNodes, references \in ReferenceSets :
       LET Called(r) ==
             /\ tree' = r.tree
             /\ edit' = [kind |-> "insert", before |-> tree, node |-> node,
                         references |-> references, err |-> r.err]
       IN  Called(insert_node(tree, node, references))
  /\ phase' = "inserted"
  /\ UNCHANGED <<lines, tokens, ts, impl, ws_comment, out>>

InsertSpec == InsertInit /\ [][InsertNode]_vars

\* ------------------------------------------------------ properties, insert_node

\* The names the aliases of the statements of t bind, and the targets of its
\* assignments
BoundIn(t) ==
  UNION {{BoundName(t.body[k].names[j]) : j \in 1..Len(t.body[k].names)} :
           k \in {i \in 1..Len(t.body) : t.body[i].type \in {"Import", "ImportFrom"}}}
  \cup {t.body[k].targets[1].id : k \in {i \in 1..Len(t.body) : t.body[i].type = "Assign"}}

\* t has a from-import of name out of src, bound as asname
Provides(t, name, asname) ==
  \E k \in 1..Len(t.body) :
    /\ t.body[k].type = "ImportFrom"
    /\ t.body[k].module = <<"s", "r", "c">>
    /\ \E j \in 1..Len(t.body[k].names) :
         /\ t.body[k].names[j].name = name
         /\ BoundName(t.body[k].names[j]) = asname

\* C23: insert_node raises nothing; the node is the last statement of the
\* body afterwards, the statements the body had are its first statements, as
\* they were; and for a name the node reads that is among the references the
\* tree has an import of it out of its module, bound as the name the node
\* now reads, an import the tree had being used and a new one bound as a
\* name the tree had not bound.  As stated; the call of add_import raises
\* AttributeError.
C23_InsertNode ==
  phase = "inserted" =>
    LET before == edit.before.body
        after == tree.body
        last == after[Len(after)]
    IN  /\ edit.err = ""
        /\ Len(after) > Len(before)
        /\ SubSeq(after, 1, Len(before)) = before
        /\ last.uid = edit.node.uid
        /\ edit.node.type = "Expr" /\ RootId(edit.node.value) \in edit.references =>
             /\ Provides(tree, RootId(edit.node.value), RootId(last.value))
             /\ \/ Provides(edit.before, RootId(edit.node.value), RootId(last.value))
                \/ RootId(last.value) \notin BoundIn(edit.before)

\* ------------------------------------------------------ extract_node

\* The modules a statement is extracted from: statements x = True, from src
\* import x, import y and the reads x.foo and y.foo
ExtractModules ==
  {[type |-> "Module", uid |-> <<>>,
    body |-> [i \in 1..Len(m) |->
                CASE m[i] = "Assign" -> AssignNode(<<i>>)
                  [] m[i] = "ImportFrom" ->
                       ImportFromNode(<<i>>, <<"s", "r", "c">>, <<Imported(<<"x">>, <<>>)>>)
                  [] m[i] = "Import" -> ImportNode(<<i>>, <<Imported(<<"y">>, <<>>)>>)
                  [] m[i] = "x" \/ m[i] = "y" ->
                       [type |-> "Expr", uid |-> <<i>>,
                        value |-> AttributeNode(<<i, 1>>, <<<<m[i]>>, <<"f", "o", "o">>>>)]]] :
   m \in UNION {[1..n -> {"Assign", "ImportFrom", "Import", "x", "y"}] : n \in 1..MaxBody}}

\* extract_node(tree, node, src_module_name, remove_node, cleanup_imports):
\* [tree, references, err].  ast_utils has no find_nodes, so a name with a
\* definition and a read raises AttributeError; the names left give no
\* reference, and remove_child is called whatever remove_node is.
extract_node(t, node, src_module_name, remove_node, cleanup_imports) ==
  LET Removed(r) == [tree |-> r.parent, references |-> {}, err |-> r.err]
      Over(names) ==
        IF \E n \in DOMAIN names : names[n].definition # None /\ names[n].reads # {}
        THEN [tree |-> t, references |-> {}, err |-> "AttributeError"]
        ELSE Removed(remove_child(t, node))
  IN  Over(scope_names(t))

ExtractInit ==
  /\ tree \in ExtractModules
  /\ lines = <<>>
  /\ tokens = <<>>
  /\ ts = NewStream
  /\ phase = "built"
  /\ impl = "python"
  /\ ws_comment = FALSE
  /\ edit = NoEdit
  /\ out = NewPrinter

\* extract_node(tree, node, 'src', remove_node, cleanup_imports) on a
\* statement of the tree; edit keeps the call, the tree before it and what
\* it returned or raised
ExtractNode ==
  /\ phase = "built"
  /\ \E k \in 1..Len(tree.body), remove_node \in BOOLEAN, cleanup_imports \in BOOLEAN :
       LET Called(r) ==
             /\ tree' = r.tree
             /\ edit' = [kind |-> "extract", before |-> tree, node |-> tree.body[k].uid,
                         remove_node |-> remove_node, cleanup_imports |-> cleanup_imports,
                         references |-> r.references, err |-> r.err]
       IN  Called(extract_node(tree, tree.body[k], <<"s", "r", "c">>, remove_node,
                               cleanup_imports))
  /\ phase' = "extracted"
  /\ UNCHANGED <<lines, tokens, ts, impl, ws_comment, out>>

ExtractSpec == ExtractInit /\ [][ExtractNode]_vars

\* ------------------------------------------------------ properties, extract_node

\* C25: extract_node with remove_node true takes the node out of the body of
\* its parent, and with remove_node false leaves the node in the body where
\* it was.  As stated; the node is removed whatever remove_node is.
C25_RemoveNodeFlag ==
  phase = "extracted" /\ edit.err = "" =>
    LET at == {k \in 1..Len(tree.body) : tree.body[k].uid = edit.node}
        was == {k \in 1..Len(edit.before.body) : edit.before.body[k].uid = edit.node}
    IN  /\ edit.remove_node => at = {}
        /\ ~edit.remove_node => at = was /\ at # {}

\* ------------------------------------------------------ properties, dump again

\* C24: dumping a parsed source a second time changes nothing: the dump of a
\* parsed source S returns a text that is a source, and parsing and dumping
\* that text gives the same text, dump(parse(dump(parse(S)))) =
\* dump(parse(S)).  As stated; the first dump raises the NameError of C1 and
\* there is no text to parse again.
C24_ReDump ==
  (phase = "dumped" /\ edit.kind = "none") =>
    LET Again(s) ==
          /\ Concat(s.lines) = out.code
          /\ s.lines = lines => to_str(Annotate(s.ast).node) = out
    IN  /\ out.err = ""
        /\ \E s \in Sources : Again(s)

\* ------------------------------------------------------ properties, scopes

RECURSIVE ParenPairs(_, _, _)
\* The expressions of a concrete syntax tree, each with the identity of its
\* node and the number n of pairs of parentheses written directly around it
ParenPairs(c, uid, n) ==
  CASE c.k = "Paren" -> ParenPairs(c.e, uid, n + 1)
    [] c.k = "Bin" -> {[uid |-> uid, n |-> n]}
                      \cup ParenPairs(c.l, uid \o <<1>>, 0)
                      \cup ParenPairs(c.r, uid \o <<3>>, 0)
    [] OTHER -> {[uid |-> uid, n |-> n]}

\* How often the character ch is in text
CountOf(ch, text) == Cardinality({i \in 1..Len(text) : text[i] = ch})

MaxScope == 5

\* The tuples (a,), ((a),), (a, a,) and ((a, a,)), written with spaces after
\* the commas
TupleCST ==
  {<<"(", "a", ",", ")">>, <<"(", "(", "a", ")", ",", ")">>,
   <<"(", "a", ",", "a", ",", ")">>, <<"(", "(", "a", ",", "a", ",", ")", ")">>}

RECURSIVE TupleLex(_)
TupleLex(c) ==
  IF c = <<>> THEN <<Lex("NEWLINE", <<NL>>)>>
  ELSE (CASE Head(c) = "a" -> <<Lex("NAME", <<"a">>)>>
          [] Head(c) = "," /\ c[2] = "a" -> <<Lex("OP", <<",">>)>> \o WS(1)
          [] OTHER -> <<Lex("OP", <<Head(c)>>)>>)
       \o TupleLex(Tail(c))

\* ast.parse on a tuple: the elements are the names, in order
TupleAst(c) ==
  LET names == SelectSeq(c, LAMBDA x : x = "a")
  IN  [type |-> "Module", uid |-> <<>>,
       body |-> <<[type |-> "Expr", uid |-> <<1>>,
                   value |-> [type |-> "Tuple", uid |-> <<1, 1>>,
                              elts |-> [j \in 1..Len(names) |-> NameNode(<<1, 1, j>>)]]]>>]

\* The sources a stream is opened on: the expression statements of at most
\* MaxScope tokens in every layout, and the tuples
ScopeSources ==
  {LET lx == StmtLex(c, sty)
   IN  [lines |-> SplitLines(SourceText(lx), <<>>),
        tokens |-> Tokenize(lx),
        ast |-> ParseAst(<<c>>)] :
   c \in UNION {{[k |-> "ExprStmt", e |-> x] : x \in ExprCST(n)} : n \in 1..MaxScope},
   sty \in Styles}
  \cup {[lines |-> SplitLines(SourceText(TupleLex(c)), <<>>),
         tokens |-> Tokenize(TupleLex(c)),
         ast |-> TupleAst(c)] : c \in TupleCST}

ScopeInit ==
  /\ \E s \in ScopeSources : lines = s.lines /\ tokens = s.tokens /\ tree = s.ast
  /\ ts = NewStream
  /\ phase = "stream"
  /\ impl = "token_generator"
  /\ ws_comment = FALSE
  /\ edit = NoEdit
  /\ out = NewPrinter

\* The nodes handed to open_scope and close_scope
ScopeNodes == {n \in Nodes(tree) : n.type \in {"Expr", "BinOp", "Tuple", "Name", "Num"}}

\* open_scope(node, single_paren)
OpenScope ==
  /\ ts.err = ""
  /\ \E node \in ScopeNodes, single_paren \in BOOLEAN :
       /\ ts' = tg_open_scope(ts, node, single_paren)
       /\ edit' = [kind |-> "open", uid |-> node.uid, before |-> ts]
  /\ UNCHANGED <<lines, tokens, tree, phase, impl, ws_comment, out>>

\* close_scope(node, trailing_comma=..., single_paren=...) on a node whose
\* formatting is empty
CloseScope ==
  /\ ts.err = ""
  /\ \E node \in ScopeNodes, trailing_comma \in BOOLEAN, single_paren \in BOOLEAN :
       /\ ts' = tg_close_scope([node |-> setup_props(node), st |-> ts], "prefix", "suffix",
                               trailing_comma, single_paren).st
       /\ edit' = [kind |-> "close", uid |-> node.uid, before |-> ts]
  /\ UNCHANGED <<lines, tokens, tree, phase, impl, ws_comment, out>>

\* next(): a visit takes the token that comes
TakeToken ==
  /\ ts.err = ""
  /\ tg_peek(ts).type # "None"
  /\ ts' = tg_next(ts, TRUE).st
  /\ edit' = [kind |-> "next", uid |-> <<>>, before |-> ts]
  /\ UNCHANGED <<lines, tokens, tree, phase, impl, ws_comment, out>>

ScopeNext == OpenScope \/ CloseScope \/ TakeToken

ScopeSpec == ScopeInit /\ [][ScopeNext]_vars

\* ------------------------------------------------------ properties, scope calls

\* The token that follows the formatting tokens after the cursor of st
Significant(st) ==
  LET rest == {j \in (st.i + 2)..Len(tokens) : tokens[j].type \notin FORMATTING_TOKENS}
  IN  IF rest = {} THEN NoneTok ELSE tokens[CHOOSE j \in rest : \A k \in rest : j <= k]

\* C27: a call of open_scope that finds no '(' before the next significant
\* token leaves the stream as it was: cursor, location, the stack of
\* parentheses and the stack of scopes.
C27_OpenScopeNoParen ==
  (edit.kind = "open" /\ Significant(edit.before).src # <<"(">>) => ts = edit.before

\* C27 happens: open_scope was called with a line break and then a name
\* ahead, inside a parenthesis that is open
C27_Witness ==
  /\ edit.kind = "open"
  /\ Significant(edit.before).type = "NAME"
  /\ tg_peek(edit.before).type = "NL"
  /\ edit.before.parens # <<>>
  /\ ts = edit.before

\* C28: after every sequence of calls of open_scope and close_scope, with
\* and without single_paren and trailing_comma, the stack of parentheses and
\* the stack of scopes have the same length.
C28_StacksAligned == Len(ts.parens) = Len(ts.scope_stack)

\* C28 happens: two parentheses were opened by one call and one of them has
\* been closed by a call of close_scope
C28_Witness ==
  /\ edit.kind = "close"
  /\ Len(edit.before.parens) = 2
  /\ Len(ts.parens) = 1
  /\ Len(ts.scope_stack) = 1

\* ------------------------------------------------------ get_last_child

\* The number of statements of a clause of a block statement
MaxClause == 2

\* A clause of 1..MaxClause pass statements; f is the number of the field
\* that holds it: 1 body, 2 handlers, 3 orelse, 4 finalbody
Clauses(uid, f) ==
  {[i \in 1..n |-> PassNode(uid \o <<f, i>>)] : n \in 1..MaxClause}

\* The if statements of an else clause: written elif (is_elif stored true)
\* or as a statement of its own
InnerIfs(uid) ==
  {[type |-> "If", uid |-> uid, body |-> b, orelse |-> o, a |-> ("is_elif" :> e)] :
     b \in Clauses(uid, 1), o \in {<<>>} \cup Clauses(uid, 3), e \in {<<TRUE>>, <<>>}}

\* The with statements of the body of a with: continued (is_continued
\* stored true) or a statement of its own
InnerWiths(uid) ==
  {[type |-> "With", uid |-> uid, body |-> b, a |-> ("is_continued" :> e)] :
     b \in Clauses(uid, 1), e \in {<<TRUE>>, <<>>}}

\* The except clauses of a try statement: none, one or two
Handlers(uid) ==
  {<<>>}
  \cup {<<[type |-> "ExceptHandler", uid |-> uid \o <<2, 1>>, body |-> b]>> :
          b \in Clauses(uid \o <<2, 1>>, 1)}
  \cup {<<[type |-> "ExceptHandler", uid |-> uid \o <<2, 1>>, body |-> b],
          [type |-> "ExceptHandler", uid |-> uid \o <<2, 2>>, body |-> c]>> :
          b \in Clauses(uid \o <<2, 1>>, 1), c \in Clauses(uid \o <<2, 2>>, 1)}

\* The block statements handed to get_last_child
BlockStmts ==
  {[type |-> "If", uid |-> <<1>>, body |-> b, orelse |-> o] :
     b \in Clauses(<<1>>, 1),
     o \in {<<>>} \cup Clauses(<<1>>, 3) \cup {<<i>> : i \in InnerIfs(<<1, 3, 1>>)}}
  \cup {[type |-> t, uid |-> <<1>>, body |-> b, orelse |-> o] :
          t \in {"For", "While"}, b \in Clauses(<<1>>, 1),
          o \in {<<>>} \cup Clauses(<<1>>, 3)}
  \cup {[type |-> "With", uid |-> <<1>>, body |-> b] :
          b \in Clauses(<<1>>, 1) \cup {<<w>> : w \in InnerWiths(<<1, 1, 1>>)}}
  \cup {t \in {[type |-> "Try", uid |-> <<1>>, body |-> b, handlers |-> h, orelse |-> o,
                finalbody |-> f] :
                 b \in Clauses(<<1>>, 1), h \in Handlers(<<1>>),
                 o \in {<<>>} \cup Clauses(<<1>>, 3), f \in {<<>>} \cup Clauses(<<1>>, 4)} :
          /\ t.handlers # <<>> \/ t.finalbody # <<>>
          /\ t.orelse # <<>> => t.handlers # <<>>}

RECURSIVE get_last_child(_)
\* get_last_child(node).  ast has Try and neither TryFinally nor TryExcept.
get_last_child(node) ==
  LET Last(list) == list[Len(list)]
  IN  CASE node.type = "If" /\ Len(node.orelse) = 1 /\ node.orelse[1].type = "If"
             /\ Truthy(node.orelse[1], "is_elif") -> get_last_child(node.orelse[1])
        [] node.type = "If" /\ node.orelse # <<>> -> Last(node.orelse)
        [] node.type = "With" /\ Len(node.body) = 1 /\ node.body[1].type = "With"
             /\ Truthy(node.body[1], "is_continued") -> get_last_child(node.body[1])
        [] node.type = "Try" /\ node.finalbody # <<>> -> Last(node.finalbody)
        [] node.type = "Try" /\ node.orelse # <<>> -> Last(node.orelse)
        [] OTHER -> Last(node.body)

LastInit ==
  /\ tree \in BlockStmts
  /\ lines = <<>>
  /\ tokens = <<>>
  /\ ts = NewStream
  /\ phase = "built"
  /\ impl = "python"
  /\ ws_comment = FALSE
  /\ edit = NoEdit
  /\ out = NewPrinter

\* get_last_child(tree); edit keeps the node returned
GetLastChild ==
  /\ phase = "built"
  /\ edit' = [kind |-> "last", uid |-> get_last_child(tree).uid]
  /\ phase' = "called"
  /\ UNCHANGED <<lines, tokens, tree, ts, impl, ws_comment, out>>

LastSpec == LastInit /\ [][GetLastChild]_vars

\* ------------------------------------------------------ properties, get_last_child

RECURSIVE LastInSource(_)
\* The statement written last among the clauses of a block statement: the
\* last one of the last clause that is there, in the order body, except
\* clauses, else, finally; an elif and a continued with count as clauses of
\* the statement they go on
LastInSource(node) ==
  LET Has(f) == f \in DOMAIN node /\ node[f] # <<>>
      Last(list) == list[Len(list)]
  IN  CASE Has("finalbody") -> Last(node.finalbody)
        [] Has("orelse") ->
             IF Len(node.orelse) = 1 /\ node.orelse[1].type = "If"
                /\ Truthy(node.orelse[1], "is_elif")
             THEN LastInSource(node.orelse[1])
             ELSE Last(node.orelse)
        [] Has("handlers") -> LastInSource(Last(node.handlers))
        [] OTHER ->
             IF node.type = "With" /\ Len(node.body) = 1 /\ node.body[1].type = "With"
                /\ Truthy(node.body[1], "is_continued")
             THEN LastInSource(node.body[1])
             ELSE Last(node.body)

\* C29: get_last_child returns, for every block statement, the statement
\* that is last in the source among all its clauses: the last one of the
\* else clause of a for or while, of the last except clause of a try without
\* else and finally.  As stated; for and while give the last statement of
\* the body, and so does a try with except clauses alone.
C29_LastChild == phase = "called" => edit.uid = LastInSource(tree).uid

\* ------------------------------------------------------ augmented assignments
\* The third family of sources: one augmented assignment a op= a or
\* a op= 1, with every operator of the language.

\* The operators of an augmented assignment as the tokenizer gives them
AugOps ==
  AUG_TOKENS @@ ("LShift" :> <<"<", "<", "=">>) @@ ("RShift" :> <<">", ">", "=">>)
  @@ ("MatMult" :> <<"@", "=">>)

\* The lexemes of target op= value; sp spaces on each side of the operator
AugLex(op, value, sp, trail) ==
  <<Lex("NAME", <<"a">>)>> \o WS(sp) \o <<Lex("OP", AugOps[op])>> \o WS(sp)
  \o <<IF value = "Name" THEN Lex("NAME", <<"a">>) ELSE Lex("NUMBER", <<"1">>)>>
  \o (IF trail THEN WS(1) \o <<Lex("COMMENT", <<"#", "c">>)>> ELSE <<>>)
  \o <<Lex("NEWLINE", <<NL>>)>>

\* ast.parse on an augmented assignment
AugAst(op, value) ==
  [type |-> "Module", uid |-> <<>>,
   body |-> <<[type |-> "AugAssign", uid |-> <<1>>,
               target |-> NameNode(<<1, 1>>),
               op |-> [type |-> op, uid |-> <<1, 2>>],
               value |-> IF value = "Name" THEN NameNode(<<1, 3>>)
                         ELSE NumNode(<<1, 3>>, 1)]>>]

AugSources ==
  {[lines |-> SplitLines(SourceText(AugLex(op, v, sp, tr)), <<>>),
    tokens |-> Tokenize(AugLex(op, v, sp, tr)),
    ast |-> AugAst(op, v)] :
   op \in DOMAIN AugOps, v \in {"Name", "Num"}, sp \in 0..1, tr \in BOOLEAN}

AugInit ==
  /\ \E s \in AugSources : lines = s.lines /\ tokens = s.tokens /\ tree = s.ast
  /\ ts = NewStream
  /\ phase = "source"
  /\ impl = "annotate" /\ ws_comment = FALSE
  /\ edit = NoEdit
  /\ out = NewPrinter

\* AstAnnotator(source).visit(tree) is Parse
AugSpec == AugInit /\ [][Parse]_vars

\* ------------------------------------------------------ properties, augmented assignments

\* C30: the visit of an augmented assignment whose operator is one of Add,
\* Sub, Mult, Div, Mod, BitAnd, BitOr, BitXor, FloorDiv and Pow takes the
\* compound token of that operator from the stream and goes on, and with any
\* other operator the visit fails with ValueError.  As stated; with another
\* operator it fails with TypeError.
C30_AugAssign ==
  phase \in {"parsed", "failed"} =>
    LET op == tree.body[1].op.type
    IN  /\ op \in DOMAIN AUG_TOKENS =>
             /\ phase = "parsed"
             /\ \E j \in 1..Len(tokens) : tokens[j].src = AUG_TOKENS[op] /\ ts.i >= j - 1
        /\ op \notin DOMAIN AUG_TOKENS => phase = "failed" /\ ts.err = "ValueError"
====
